---- MODULE Spec2Model ----
(***************************************************************************)
(* Model of the marvin-manager agent runtime: the sliding-window rate      *)
(* limiter (commons/rate_limiter.py), the agent tool resolution            *)
(* (agents/models.py), the tool registry (agents/tools) and the runner's   *)
(* tool loop (agents/runner.py, agents/llm/*_client.py).                   *)
(***************************************************************************)
EXTENDS Integers, Sequences, FiniteSets, TLC

None == "none"

\* ------------------------------------------------------------------------
\* Bounds of the model (MaxAvailable, MaxIterations are further down)
\* ------------------------------------------------------------------------
MaxClock == 120
MaxRpm == 2
MaxAcquires == 3

\* The monotonic clock advances in steps of these many seconds.
ClockSteps == {30}

\* Callers (threads, or tasks of one event loop) sharing one limiter.
Callers == {"c1", "c2"}

\* ------------------------------------------------------------------------
\* commons/rate_limiter.py
\* ------------------------------------------------------------------------
SECONDS_PER_MINUTE == 60

VARIABLES
    clock,       \* time.monotonic()
    rpm,         \* RateLimiter.rpm
    timestamps,  \* RateLimiter._timestamps (head = oldest)
    sched,       \* how the callers are scheduled: sequential / threads / tasks
    loopOwner,   \* the task that runs on the event loop (tasks only)
    lpc,         \* per caller: position inside the limiter operation
    lop,         \* per caller: operation in progress
    lnow,        \* per caller: local variable now
    lwait,       \* per caller: local variable wait_time
    lwake,       \* per caller: earliest clock at which the sleep ends
    fresh,       \* the call that returned in the last step (None otherwise)
    started,     \* number of acquire calls begun so far
    waiters      \* callers told to wait that have not appended yet, in the
                 \* order in which they were told

limVars == <<clock, rpm, timestamps, sched, loopOwner, lpc, lop, lnow, lwait,
             lwake, fresh, started, waiters>>

\* No call returned in the last step.
NoReturn == [caller |-> None, op |-> None, value |-> 0]

Max(a, b) == IF a >= b THEN a ELSE b

\* RateLimiter._cleanup_old_timestamps: pop from the head while it is
\* strictly older than now - window_seconds.
RECURSIVE CleanupOldTimestamps(_, _)
CleanupOldTimestamps(ts, now) ==
    IF ts # <<>> /\ Head(ts) < now - SECONDS_PER_MINUTE
    THEN CleanupOldTimestamps(Tail(ts), now)
    ELSE ts

\* The value get_wait_time computes inside its locked section, on the
\* purged window.
WaitTimeOf(ts, now) ==
    IF Len(ts) < rpm THEN 0
    ELSE Max(0, (Head(ts) + SECONDS_PER_MINUTE) - now)

LimOps == {"acquire", "acquire_async", "get_wait_time", "current_count"}

\* A caller may take a step: tasks of one event loop run one at a time
\* between suspension points, threads interleave freely.
MayRun(c) == sched = "tasks" => loopOwner \in {None, c}

\* A caller may begin an operation.
MayBegin(c) ==
    /\ lpc[c] = "idle"
    /\ MayRun(c)
    /\ sched = "sequential" => \A d \in Callers : lpc[d] = "idle"

LimInitCommon ==
    /\ clock = 0
    /\ rpm \in 0..MaxRpm
    /\ timestamps = <<>>
    /\ loopOwner = None
    /\ lpc = [c \in Callers |-> "idle"]
    /\ lop = [c \in Callers |-> None]
    /\ lnow = [c \in Callers |-> 0]
    /\ lwait = [c \in Callers |-> 0]
    /\ lwake = [c \in Callers |-> 0]
    /\ fresh = NoReturn
    /\ started = 0
    /\ waiters = <<>>

\* Some caller is in time.sleep / asyncio.sleep and its time is not up.
SomeoneSleeps == \E c \in Callers : lpc[c] = "read_now" /\ lwake[c] > clock

\* The clock moves on.  The straight-line code between reading the clock
\* and leaving the locked section takes no model time, unless the caller is
\* a thread, which may be preempted anywhere.  The clock is followed up to
\* MaxClock, and beyond it for as long as a sleeper has to wake.
Tick ==
    /\ sched # "threads" =>
          \A c \in Callers : lpc[c] \notin {"locked_read", "locked_append"}
    /\ \E d \in ClockSteps :
          /\ clock + d <= MaxClock \/ SomeoneSleeps
          /\ clock' = clock + d
    /\ fresh' = NoReturn
    /\ UNCHANGED <<rpm, timestamps, sched, loopOwner, lpc, lop, lnow, lwait,
                   lwake, started, waiters>>

\* An operation of caller c returns v: its locals are gone.
Returns(c, v) ==
    /\ fresh' = [caller |-> c, op |-> lop[c], value |-> v]
    /\ lpc' = [lpc EXCEPT ![c] = "idle"]
    /\ lop' = [lop EXCEPT ![c] = None]
    /\ lnow' = [lnow EXCEPT ![c] = 0]
    /\ lwait' = [lwait EXCEPT ![c] = 0]
    /\ lwake' = [lwake EXCEPT ![c] = 0]
    /\ loopOwner' = None

\* Entry of acquire / acquire_async / get_wait_time / current_count.
\* get_wait_time returns 0.0 at once when rpm <= 0; otherwise the clock is
\* read before the lock is taken.
Begin(c, op) ==
    /\ MayBegin(c)
    /\ op \in {"acquire", "acquire_async"} => started < MaxAcquires
    /\ sched = "tasks" => op # "acquire"
    /\ started' = IF op \in {"acquire", "acquire_async"} THEN started + 1 ELSE started
    /\ IF op = "current_count" \/ rpm > 0
       THEN /\ lop' = [lop EXCEPT ![c] = op]
            /\ lnow' = [lnow EXCEPT ![c] = clock]
            /\ lpc' = [lpc EXCEPT ![c] = "locked_read"]
            /\ loopOwner' = IF sched = "tasks" THEN c ELSE loopOwner
            /\ fresh' = NoReturn
            /\ UNCHANGED <<lwait, lwake>>
       ELSE IF op = "get_wait_time"
       THEN /\ fresh' = [caller |-> c, op |-> op, value |-> 0]
            /\ UNCHANGED <<lop, lpc, lnow, lwait, lwake, loopOwner>>
       ELSE \* acquire with rpm <= 0: wait_time = 0.0, no sleep
            /\ lop' = [lop EXCEPT ![c] = op]
            /\ lwait' = [lwait EXCEPT ![c] = 0]
            /\ lwake' = [lwake EXCEPT ![c] = clock]
            /\ lpc' = [lpc EXCEPT ![c] = "read_now"]
            /\ loopOwner' = IF sched = "tasks" THEN c ELSE loopOwner
            /\ fresh' = NoReturn
            /\ UNCHANGED lnow
    /\ UNCHANGED <<clock, rpm, timestamps, sched, waiters>>

\* The locked section of get_wait_time (purge, then compute the wait) and of
\* current_count (purge, then count).
LockedRead(c) ==
    /\ lpc[c] = "locked_read"
    /\ MayRun(c)
    /\ LET ts == CleanupOldTimestamps(timestamps, lnow[c])
           w == WaitTimeOf(ts, lnow[c])
       IN /\ timestamps' = ts
          /\ waiters' = IF lop[c] \in {"acquire", "acquire_async"} /\ w > 0
                         THEN Append(waiters, c) ELSE waiters
          /\ IF lop[c] = "current_count"
             THEN Returns(c, Len(ts))
             ELSE IF lop[c] = "get_wait_time"
             THEN Returns(c, w)
             ELSE \* acquire: time.sleep(wait_time) only when wait_time > 0;
                  \* a sleeping task gives up the event loop
                  /\ lwait' = [lwait EXCEPT ![c] = w]
                  /\ lwake' = [lwake EXCEPT ![c] = clock + w]
                  /\ lnow' = [lnow EXCEPT ![c] = 0]
                  /\ lpc' = [lpc EXCEPT ![c] = "read_now"]
                  /\ fresh' = NoReturn
                  /\ loopOwner' = IF w > 0 THEN None ELSE loopOwner
                  /\ UNCHANGED lop
    /\ UNCHANGED <<clock, rpm, sched, started>>

\* The sleep (if any) is over and acquire reads the clock again.
ReadNow(c) ==
    /\ lpc[c] = "read_now"
    /\ MayRun(c)
    /\ clock >= lwake[c]
    /\ lnow' = [lnow EXCEPT ![c] = clock]
    /\ lwake' = [lwake EXCEPT ![c] = 0]
    /\ lpc' = [lpc EXCEPT ![c] = "locked_append"]
    /\ loopOwner' = IF sched = "tasks" THEN c ELSE loopOwner
    /\ fresh' = NoReturn
    /\ UNCHANGED <<clock, rpm, timestamps, sched, lop, lwait, started, waiters>>

\* The locked section of acquire: purge, append now, return wait_time.
LockedAppend(c) ==
    /\ lpc[c] = "locked_append"
    /\ MayRun(c)
    /\ timestamps' = Append(CleanupOldTimestamps(timestamps, lnow[c]), lnow[c])
    /\ waiters' = SelectSeq(waiters, LAMBDA d : d # c)
    /\ Returns(c, lwait[c])
    /\ UNCHANGED <<clock, rpm, sched, started>>

\* The caller of a task suspended in acquire_async's asyncio.sleep cancels
\* it: CancelledError is raised at the await and leaves acquire_async.
Cancel(c) ==
    /\ lop[c] = "acquire_async"
    /\ lpc[c] = "read_now"
    /\ lwait[c] > 0
    /\ fresh' = [caller |-> c, op |-> "cancelled", value |-> lwait[c]]
    /\ lpc' = [lpc EXCEPT ![c] = "idle"]
    /\ lop' = [lop EXCEPT ![c] = None]
    /\ lnow' = [lnow EXCEPT ![c] = 0]
    /\ lwait' = [lwait EXCEPT ![c] = 0]
    /\ lwake' = [lwake EXCEPT ![c] = 0]
    /\ waiters' = SelectSeq(waiters, LAMBDA d : d # c)
    /\ UNCHANGED <<clock, rpm, timestamps, sched, loopOwner, started>>

LimStep ==
    \/ Tick
    \/ \E c \in Callers, op \in LimOps : Begin(c, op)
    \/ \E c \in Callers : LockedRead(c)
    \/ \E c \in Callers : ReadNow(c)
    \/ \E c \in Callers : LockedAppend(c)
    \/ \E c \in Callers : Cancel(c)

\* ------------------------------------------------------------------------
\* agents/models.py: Agent.get_allowed_tools
\* ------------------------------------------------------------------------
\* Tool names are strings, written as sequences of characters so that
\* str.startswith can be computed.
calculator == <<"c", "a", "l", "c", "u", "l", "a", "t", "o", "r">>
get_datetime == <<"g", "e", "t", "_", "d", "a", "t", "e", "t", "i", "m", "e">>
web_search == <<"w", "e", "b", "_", "s", "e", "a", "r", "c", "h">>
memory_search == <<"m", "e", "m", "o", "r", "y", "_", "s", "e", "a", "r", "c", "h">>
read_file == <<"r", "e", "a", "d", "_", "f", "i", "l", "e">>
send == <<"s", "e", "n", "d">>
exec_boom == <<"e", "x", "e", "c", "_", "b", "o", "o", "m">>

MaxAvailable == 3

\* Names a caller may pass as available_tools, tools_allow or tools_deny.
ToolNameChoices == {calculator, read_file, send}

ToolProfiles == {"minimal", "coding", "messaging", "full"}

coding_prefixes == {<<"r", "e", "a", "d">>, <<"w", "r", "i", "t", "e">>, <<"e", "d", "i", "t">>, <<"e", "x", "e", "c">>, <<"f", "i", "l", "e">>, <<"c", "o", "d", "e">>}
messaging_prefixes == {<<"s", "e", "n", "d">>,
                       <<"m", "e", "s", "s", "a", "g", "e">>,
                       <<"n", "o", "t", "i", "f", "y">>,
                       <<"e", "m", "a", "i", "l">>,
                       <<"s", "l", "a", "c", "k">>,
                       <<"t", "e", "l", "e", "g", "r", "a", "m">>}

VARIABLES
    tool_profile,    \* Agent.tool_profile
    tools_allow,     \* Agent.tools_allow
    tools_deny,      \* Agent.tools_deny
    available_tools, \* argument of get_allowed_tools
    allowed_result,  \* its return value
    resolved         \* get_allowed_tools has returned

agentVars == <<tool_profile, tools_allow, tools_deny>>
toolVars == <<available_tools, allowed_result, resolved>>

Range(q) == {q[i] : i \in DOMAIN q}

\* str.startswith
StartsWith(t, p) == Len(t) >= Len(p) /\ SubSeq(t, 1, Len(p)) = p

\* [t for t in lst if t in keep]
FilterIn(lst, keep) == SelectSeq(lst, LAMBDA t : t \in keep)

\* Agent._get_profile_tools
GetProfileTools(profile, avail) ==
    IF profile = "minimal" THEN <<>>
    ELSE IF profile = "coding"
    THEN SelectSeq(avail, LAMBDA t : \E p \in coding_prefixes : StartsWith(t, p))
    ELSE IF profile = "messaging"
    THEN SelectSeq(avail, LAMBDA t : \E p \in messaging_prefixes : StartsWith(t, p))
    ELSE avail

\* A plausible slip: the deny list is applied before the allow list.
GetAllowedToolsAllowWins(profile, allow, deny, avail) ==
    FilterIn(avail, (Range(GetProfileTools(profile, avail)) \ deny) \cup allow)

\* Agent.get_allowed_tools
GetAllowedTools(profile, allow, deny, avail) ==
    LET allowed0 == Range(GetProfileTools(profile, avail))
        allowed1 == IF allow # {} THEN allowed0 \cup allow ELSE allowed0
        allowed2 == IF deny # {} THEN allowed1 \ deny ELSE allowed1
    IN FilterIn(avail, allowed2)

\* All lists of at most n names.
ListsUpTo(S, n) == UNION {[1..k -> S] : k \in 0..n}


ToolsInit ==
    /\ tool_profile \in ToolProfiles
    /\ tools_allow \in SUBSET ToolNameChoices
    /\ tools_deny \in SUBSET ToolNameChoices
    /\ available_tools \in ListsUpTo(ToolNameChoices, MaxAvailable)
    /\ allowed_result = <<>>
    /\ resolved = FALSE

\* agent.get_allowed_tools(available_tools)
CallGetAllowedTools ==
    /\ ~resolved
    /\ allowed_result' = GetAllowedTools(tool_profile, tools_allow, tools_deny, available_tools)
    /\ resolved' = TRUE
    /\ UNCHANGED <<agentVars, available_tools>>

\* ------------------------------------------------------------------------
\* agents/tools/base.py, agents/tools/builtin.py, agents/tools/registry.py
\* ------------------------------------------------------------------------
\* A text: an f-string's fixed part and the value formatted into it.
Txt(t, x) == [text |-> t, of |-> x]
EmptyText == Txt("", "")
NoText == Txt(None, "")

\* A Python value: its type and its literal, written as characters.
PyVal(t, lit) == [pytype |-> t, lit |-> lit]

\* ToolResult.success / ToolResult.from_error
ToolResultSuccess(out) == [status |-> "success", output |-> out, error |-> NoText]
ToolResultFromError(msg) == [status |-> "error", output |-> EmptyText, error |-> msg]

\* ToolParameter(name, type, required, enum); no enum is the empty set.
ToolParameter(n, t, req, en) == [name |-> n, type |-> t, required |-> req, enum |-> en]

iso == <<"i", "s", "o">>
human == <<"h", "u", "m", "a", "n">>
hybrid == <<"h", "y", "b", "r", "i", "d">>
vector == <<"v", "e", "c", "t", "o", "r">>
text_kw == <<"t", "e", "x", "t">>

\* The parameters the built-in tools declare.
ParametersOf(tool) ==
    IF tool = get_datetime
    THEN << ToolParameter("timezone", "string", FALSE, {}),
            ToolParameter("output_format", "string", FALSE, {iso, human}) >>
    ELSE IF tool = calculator
    THEN << ToolParameter("expression", "string", TRUE, {}) >>
    ELSE IF tool = web_search
    THEN << ToolParameter("query", "string", TRUE, {}),
            ToolParameter("num_results", "number", FALSE, {}) >>
    ELSE << ToolParameter("query", "string", TRUE, {}),
            ToolParameter("search_type", "string", FALSE, {hybrid, vector, text_kw}),
            ToolParameter("max_results", "number", FALSE, {}) >>

\* params is a dict: a list of key/value items in insertion order.
Item(k, v) == [key |-> k, val |-> v]
Keys(params) == {params[i].key : i \in DOMAIN params}
ValueOf(params, k) == (CHOOSE i \in DOMAIN params : params[i].key = k)

\* isinstance(value, <the Python types of a JSON type>); bool is a subclass
\* of int.
IsInstanceOf(v, jsonType) ==
    CASE jsonType = "string" -> v.pytype = "str"
      [] jsonType = "number" -> v.pytype \in {"int", "float", "bool"}
      [] jsonType = "boolean" -> v.pytype = "bool"
      [] jsonType = "array" -> v.pytype = "list"
      [] jsonType = "object" -> v.pytype = "dict"
      [] OTHER -> TRUE

MustBe(jsonType) ==
    CASE jsonType = "string" -> "must be a string"
      [] jsonType = "number" -> "must be a number"
      [] jsonType = "boolean" -> "must be a boolean"
      [] jsonType = "array" -> "must be an array"
      [] jsonType = "object" -> "must be an object"
      [] OTHER -> "must be one of"

\* BaseTool.validate_params: None when valid, else the error message.
ValidateParams(tool, params) ==
    LET decl == ParametersOf(tool)
        declOf(k) == decl[CHOOSE i \in DOMAIN decl : decl[i].name = k]
        missing == SelectSeq(decl, LAMBDA d : d.required /\ d.name \notin Keys(params))
        typeBad(it) == ~IsInstanceOf(it.val, declOf(it.key).type)
        enumBad(it) == declOf(it.key).enum # {} /\ it.val.lit \notin declOf(it.key).enum
        bad == SelectSeq(params, LAMBDA it :
                  /\ \E i \in DOMAIN decl : decl[i].name = it.key
                  /\ (typeBad(it) \/ enumBad(it)))
    IN IF missing # <<>>
       THEN Txt("Missing required parameter", Head(missing).name)
       ELSE IF bad # <<>>
       THEN IF typeBad(Head(bad))
            THEN Txt(MustBe(declOf(Head(bad).key).type), Head(bad).key)
            ELSE Txt("must be one of", Head(bad).key)
       ELSE NoText

\* CalculatorTool.ALLOWED_CHARS
ALLOWED_CHARS == {"0", "1", "2", "3", "4", "5", "6", "7", "8", "9",
                  "+", "-", "*", "/", ".", "(", ")", " "}

\* Expressions the provider asks the calculator for.
expr_6x7 == <<"6", "*", "7">>
expr_div0 == <<"1", "/", "0">>
expr_huge == <<"2", ".", "0", "*", "*", "9", "9", "9", "9">>
expr_import == <<"_", "_", "i", "m", "p", "o", "r", "t", "_", "_", "(", "'", "o", "s", "'", ")">>
lit_123 == <<"1", "2", "3">>

\* An integer literal of Python: digits, with no leading zero unless all
\* digits are zeros.
Digits == {"0", "1", "2", "3", "4", "5", "6", "7", "8", "9"}
IsIntLiteral(s) ==
    /\ s # <<>>
    /\ \A i \in DOMAIN s : s[i] \in Digits
    /\ (s[1] # "0" \/ \A i \in DOMAIN s : s[i] = "0")
IsZeroLiteral(s) == IsIntLiteral(s) /\ \A i \in DOMAIN s : s[i] = "0"

\* Python's eval on an integer literal or on one division (/ or //) of two
\* integer literals; anything else of these characters is a SyntaxError.
EvalDivision(expr) ==
    IF IsIntLiteral(expr) THEN [kind |-> "value", text |-> "str(result)"]
    ELSE IF \E p \in DOMAIN expr : expr[p] = "/"
    THEN LET p == CHOOSE q \in DOMAIN expr :
                      expr[q] = "/" /\ \A r \in 1..(q - 1) : expr[r] # "/"
             floor == p < Len(expr) /\ expr[p + 1] = "/"
             left == SubSeq(expr, 1, p - 1)
             right == SubSeq(expr, IF floor THEN p + 2 ELSE p + 1, Len(expr))
         IN IF ~(IsIntLiteral(left) /\ IsIntLiteral(right))
            THEN [kind |-> "caught", text |-> "invalid syntax"]
            ELSE IF IsZeroLiteral(right)
            THEN [kind |-> "caught",
                  text |-> IF floor THEN "integer division or modulo by zero"
                           ELSE "division by zero"]
            ELSE [kind |-> "value", text |-> "str(result)"]
    ELSE [kind |-> "caught", text |-> "invalid syntax"]

\* Python's eval on the expressions above and on divisions: a value, an
\* exception the calculator catches (SyntaxError, ZeroDivisionError), or one
\* it does not (OverflowError).
EvalOutcome(expr) ==
    IF expr = expr_6x7 THEN [kind |-> "value", text |-> "42"]
    ELSE IF expr = expr_huge THEN [kind |-> "raised", text |-> "Numerical result out of range"]
    ELSE EvalDivision(expr)

\* A slip: one allowed character is enough to evaluate the expression.
CalculatorEvaluatesAnyAllowed(expression) ==
    \E i \in DOMAIN expression : expression[i] \in ALLOWED_CHARS

\* CalculatorTool.execute reaches eval: every character is allowed.
CalculatorEvaluates(expression) ==
    \A i \in DOMAIN expression : expression[i] \in ALLOWED_CHARS

\* What a tool body does: a ToolResult, or an exception.
Returned(r) == [raised |-> FALSE, result |-> r, exc |-> NoText]
Raised(msg) == [raised |-> TRUE, result |-> ToolResultFromError(msg), exc |-> msg]

\* CalculatorTool.execute
CalculatorExecute(params) ==
    LET expression == params[ValueOf(params, "expression")].val.lit
    IN IF ~CalculatorEvaluates(expression)
       THEN Returned(ToolResultFromError(Txt("Expression contains invalid characters", "")))
       ELSE LET out == EvalOutcome(expression)
            IN IF out.kind = "value" THEN Returned(ToolResultSuccess(Txt(out.text, "")))
               ELSE IF out.kind = "caught"
               THEN Returned(ToolResultFromError(Txt("Calculation error", out.text)))
               ELSE Raised(Txt(out.text, ""))

\* tool.execute(**params) binds when every keyword is in the signature; the
\* built-in tools' signatures are their declared parameters.
Binds(tool, params) ==
    \A k \in Keys(params) : \E i \in DOMAIN ParametersOf(tool) : ParametersOf(tool)[i].name = k

\* The body of a built-in tool (memory_search: over an empty index).
ToolExecute(tool, params) ==
    IF tool = calculator THEN CalculatorExecute(params)
    ELSE IF tool = get_datetime THEN Returned(ToolResultSuccess(Txt("isoformat", "")))
    ELSE IF tool = web_search THEN Returned(ToolResultSuccess(Txt("Web search is not yet implemented", "")))
    ELSE Returned(ToolResultSuccess(Txt("No relevant memories found.", "")))

\* register_builtin_tools: the registry of an AgentRunner, in insertion order.
BuiltinTools == <<get_datetime, calculator, web_search, memory_search>>

\* A slip: the registry runs the tool body without validating the parameters.
RegistryExecuteUnvalidated(registered, name, params) ==
    IF name \notin Range(registered)
    THEN [result |-> ToolResultFromError(Txt("Tool not found", "")), ran |-> FALSE]
    ELSE LET b == ToolExecute(name, params)
         IN IF b.raised
            THEN [result |-> ToolResultFromError(b.exc), ran |-> TRUE]
            ELSE [result |-> b.result, ran |-> TRUE]

\* ToolRegistry.execute: the result, and whether the tool body was entered.
RegistryExecute(registered, name, params) ==
    IF name \notin Range(registered)
    THEN [result |-> ToolResultFromError(Txt("Tool not found", "")), ran |-> FALSE]
    ELSE LET err == ValidateParams(name, params)
         IN IF err # NoText
            THEN [result |-> ToolResultFromError(err), ran |-> FALSE]
            ELSE IF ~Binds(name, params)
            THEN [result |-> ToolResultFromError(Txt("got an unexpected keyword argument", "")),
                  ran |-> FALSE]
            ELSE LET b == ToolExecute(name, params)
                 IN IF b.raised
                    THEN [result |-> ToolResultFromError(b.exc), ran |-> TRUE]
                    ELSE [result |-> b.result, ran |-> TRUE]

\* ------------------------------------------------------------------------
\* agents/llm/base.py, agents/llm/*_client.py: messages, responses, the
\* providers' wire formats and the tool loop
\* ------------------------------------------------------------------------
MaxIterations == 2
MaxToolResponses == 3
DEFAULT_MAX_TOOL_ITERATIONS == 10

Providers == {"anthropic", "gemini", "ollama", "vllm"}

no_name == <<>>

\* ToolCall(id, name, arguments)
ToolCall(id, name, arguments) == [id |-> id, name |-> name, arguments |-> arguments]

\* LLMMessage and its constructors
LLMMessage(role, content, tool_calls, tool_call_id, name) ==
    [role |-> role, content |-> content, tool_calls |-> tool_calls,
     tool_call_id |-> tool_call_id, name |-> name]
UserMessage(content) == LLMMessage("user", content, <<>>, None, no_name)
AssistantMessage(content, tool_calls) == LLMMessage("assistant", content, tool_calls, None, no_name)
ToolResultMessage(tool_call_id, content, name) == LLMMessage("tool", content, <<>>, tool_call_id, name)

\* LLMResponse(content, stop_reason, tool_calls) and has_tool_calls
LLMResponse(content, stop_reason, tool_calls) ==
    [content |-> content, stop_reason |-> stop_reason, tool_calls |-> tool_calls]
HasToolCalls(r) == Len(r.tool_calls) > 0
NoResponse == LLMResponse(NoText, None, <<>>)

\* What a provider puts on the wire: text, tool-call blocks with the
\* provider's own ids, and the provider's finish flag.
Wire(text, calls, flag) == [text |-> text, calls |-> calls, flag |-> flag, failed |-> FALSE]
Failure == [text |-> Txt("timeout", ""), calls |-> <<>>, flag |-> "stop", failed |-> TRUE]

StrArg(k, lit) == <<Item(k, PyVal("str", lit))>>
IntArg(k, lit) == <<Item(k, PyVal("int", lit))>>

WireResponses ==
    { Wire(Txt("done", ""), <<>>, "stop"),
      Wire(Txt("42", ""), <<>>, "stop"),
      Wire(Txt("cut", ""), <<>>, "length"),
      Wire(Txt("odd", ""), <<>>, "tool"),
      Wire(Txt("", ""), <<ToolCall("tu_a", calculator, StrArg("expression", expr_6x7))>>, "tool"),
      Wire(Txt("", ""), <<ToolCall("tu_a", calculator, IntArg("expression", lit_123)),
                          ToolCall("tu_b", calculator, StrArg("expression", expr_import))>>, "tool"),
      Wire(Txt("look", ""), <<ToolCall("tu_a", send, <<>>),
                              ToolCall("tu_b", calculator, StrArg("expression", expr_huge))>>, "tool"),
      Wire(Txt("", ""), <<ToolCall("tu_a", get_datetime, <<>>),
                          ToolCall("tu_b", calculator, StrArg("expression", expr_div0))>>, "stop") }

ProviderOutcomes == WireResponses \cup {Failure}

\* f"call_{i}" for the i-th tool call of a response, counted from 0
CallId(i) == IF i = 1 THEN "call_0" ELSE IF i = 2 THEN "call_1" ELSE "call_n"

\* _parse_response of each client: Anthropic and the OpenAI-compatible client
\* keep the provider's ids and map the provider's flag; Gemini and Ollama
\* number the calls and derive tool_use from the presence of calls.
ParseResponse(prov, w) ==
    IF prov \in {"anthropic", "vllm"}
    THEN LLMResponse(w.text,
                     CASE w.flag = "tool" -> "tool_use"
                       [] w.flag = "length" -> "max_tokens"
                       [] OTHER -> "end_turn",
                     w.calls)
    ELSE LLMResponse(w.text,
                     IF w.calls # <<>> THEN "tool_use"
                     ELSE IF w.flag = "length" THEN "max_tokens" ELSE "end_turn",
                     [i \in DOMAIN w.calls |->
                         ToolCall(CallId(i), w.calls[i].name, w.calls[i].arguments)])

\* A slip: the error response of a failed call still asks for a tool.
GenerateErrorAsksTool(prov, w) ==
    IF w.failed
    THEN LLMResponse(Txt("Error", w.text.text), "error",
                     <<ToolCall("tu_a", get_datetime, <<>>)>>)
    ELSE ParseResponse(prov, w)

\* generate: the parsed response, or an error response when the call raised.
Generate(prov, w) ==
    IF w.failed THEN LLMResponse(Txt("Error", w.text.text), "error", <<>>)
    ELSE ParseResponse(prov, w)

\* BaseTool.to_anthropic_format / to_gemini_format / to_openai_format, as far
\* as the name goes: at the top, or under "function".
ToolDefinition(top, fn) == [name |-> top, function_name |-> fn]
ToAnthropicFormat(tool) == ToolDefinition(tool, no_name)
ToGeminiFormat(tool) == ToolDefinition(tool, no_name)
ToOpenAIFormat(tool) == ToolDefinition(no_name, tool)

\* AgentRunner.get_tools_for_provider
GetToolsForProvider(prov, registered) ==
    [i \in DOMAIN registered |->
        IF prov = "anthropic" THEN ToAnthropicFormat(registered[i])
        ELSE IF prov = "gemini" THEN ToGeminiFormat(registered[i])
        ELSE ToOpenAIFormat(registered[i])]

\* The name a provider reads from a tool definition.
DefinedName(t) == IF t.name # no_name THEN t.name ELSE t.function_name
DefinedNames(ts) == [i \in DOMAIN ts |-> DefinedName(ts[i])]

\* ------------------------------------------------------------------------
\* agents/runner.py, agents/views.py: one turn of an agent
\* ------------------------------------------------------------------------
\* The request: who is called (AgentRunner.run, AgentRunner.chat, or the chat
\* endpoint), with which arguments.  tool_names is a list; None is the empty
\* list, as the code only tests its truth and membership in it.
VARIABLES provider, entry, enable_tools, tool_names, max_tool_iterations, rate_limit_enabled,
          temperature

\* The list the caller passes: run's messages, chat's conversation_history.
VARIABLES passed

\* The turn in progress: where it is, run's local tools, the loop's
\* conversation, iteration, response and the tool call being executed, and
\* what the entry point returned.
VARIABLES tpc, tools, conversation, iteration, response, pending, history

\* What left the process: one entry per provider call (the tool names sent
\* and how much of the conversation was sent), one per registry execution.
VARIABLES calls, execs

\* The list objects: what the caller's list holds now, and the object that
\* conversation and history are names of ("caller", chat's copy "chat", or
\* the loop's copy "loop").
VARIABLES caller_list, conversation_ref

requestVars == <<provider, entry, enable_tools, tool_names, max_tool_iterations, rate_limit_enabled,
                 temperature, passed>>
turnVars == <<tpc, tools, conversation, iteration, response, pending, history, calls, execs,
              caller_list, conversation_ref>>

Entries == {"run", "chat", "endpoint"}

\* Agent.temperature, in tenths: the default 0.7, and 1.5.
Temperatures == {7, 15}

\* AnthropicRequest validates temperature (ge=0.0, le=1.0) before the try of
\* generate; the other clients pass it on unchecked.
RequestBuilds(prov, temp) == prov = "anthropic" => (0 <= temp /\ temp <= 10)

\* Tool policies of the agent under test: (tool_profile, tools_allow, tools_deny)
Policy(prof, allow, deny) == [profile |-> prof, allow |-> allow, deny |-> deny]
TurnPolicies ==
    { Policy("full", {}, {}),
      Policy("full", {}, {calculator}),
      Policy("minimal", {get_datetime}, {}),
      Policy("coding", {calculator}, {calculator, get_datetime}) }

\* The messages the caller hands over.
InputMessages == <<UserMessage(Txt("hello", ""))>>

\* The conversation_history a caller of chat passes: None, or an earlier
\* exchange.
ChatHistories ==
    { <<>>,
      <<UserMessage(Txt("earlier", "")), AssistantMessage(Txt("hi", ""), <<>>)>> }

\* The messages run receives: the caller's list, or chat's copy of the
\* history with the user message appended.
RunMessages == IF entry = "chat" THEN passed \o InputMessages ELSE InputMessages

\* A slip: the same list object under a new name.
ListAlias(ref, new) == ref

\* list(x): a new list object with the entries of x
ListCopy(ref, new) == new

\* The caller's list after an append to the object named ref left it
\* holding appended.
AfterAppend(ref, appended) == IF ref = "caller" THEN appended ELSE caller_list

\* views._run_chat: filtered_tools
FilteredTools ==
    IF enable_tools /\ tool_names = <<>>
    THEN GetAllowedTools(tool_profile, tools_allow, tools_deny, BuiltinTools)
    ELSE tool_names

\* The arguments AgentRunner.run receives from each entry point.
RunEnableTools == IF entry = "endpoint" THEN enable_tools /\ FilteredTools # <<>> ELSE enable_tools
RunToolNames == IF entry = "endpoint" THEN FilteredTools
                ELSE IF entry = "chat" THEN <<>> ELSE tool_names

\* AgentRunner.run, "Get tools if enabled": the definitions handed to the
\* client; the empty list stands for None too (run only tests `if tools`).
RunTools(prov, enable, names, registered) ==
    IF ~(enable /\ registered # <<>>) THEN <<>>
    ELSE LET all == GetToolsForProvider(prov, registered)
         IN IF names # <<>>
            THEN SelectSeq(all, LAMBDA t : t.name \in Range(names) \/ t.function_name \in Range(names))
            ELSE all

TurnInit ==
    /\ provider \in Providers
    /\ entry \in Entries
    /\ enable_tools \in BOOLEAN
    /\ tool_names \in IF entry = "chat" THEN {<<>>} ELSE {<<>>, <<calculator>>}
    /\ max_tool_iterations \in IF entry = "run" THEN 0..MaxIterations
                               ELSE {DEFAULT_MAX_TOOL_ITERATIONS}
    /\ rate_limit_enabled \in BOOLEAN
    /\ temperature \in IF provider = "anthropic" THEN Temperatures ELSE {7}
    /\ \E pol \in TurnPolicies :
          /\ tool_profile = pol.profile
          /\ tools_allow = pol.allow
          /\ tools_deny = pol.deny
    /\ passed \in IF entry = "chat" THEN ChatHistories ELSE {InputMessages}
    /\ tpc = "start"
    /\ tools = <<>>
    /\ conversation = <<>>
    /\ iteration = 0
    /\ response = NoResponse
    /\ pending = 0
    /\ history = <<>>
    /\ calls = <<>>
    /\ execs = <<>>
    /\ caller_list = passed
    /\ conversation_ref = None

\* AgentRunner._check_rate_limit: the agent's limiter is created with the
\* agent's rate_limit_rpm and acquired; the turn is its only caller.
CheckRateLimit ==
    IF ~rate_limit_enabled THEN UNCHANGED <<clock, timestamps>>
    ELSE LET kept == CleanupOldTimestamps(timestamps, clock)
             w == IF rpm <= 0 THEN 0 ELSE WaitTimeOf(kept, clock)
         IN /\ clock' = clock + w
            /\ timestamps' = Append(CleanupOldTimestamps(kept, clock + w), clock + w)

\* The entry point up to run's choice between the tool loop and a plain
\* generate.
TurnStart ==
    /\ tpc = "start"
    /\ CheckRateLimit
    /\ tools' = RunTools(provider, RunEnableTools, RunToolNames, BuiltinTools)
    /\ conversation' = RunMessages
    /\ LET messages_ref == IF entry = "chat" THEN ListCopy("caller", "chat") ELSE "caller"
       IN /\ caller_list' = IF entry = "chat"
                             THEN AfterAppend(messages_ref, RunMessages)
                             ELSE caller_list
          /\ conversation_ref' = IF tools' # <<>>
                                  THEN ListCopy(messages_ref, "loop")
                                  ELSE messages_ref
    /\ iteration' = 0
    /\ tpc' = IF tools' # <<>> THEN "loop" ELSE "simple"
    /\ UNCHANGED <<response, pending, history, calls, execs>>

\* The provider answers at most MaxToolResponses calls of a turn with tool
\* calls.
MayAnswer(w) == w.calls # <<>> => Len(calls) < MaxToolResponses

\* A slip: the loop runs while iteration <= max_iterations.
LoopContinuesOffByOne(iter, max_iterations) == iter <= max_iterations

\* `while iteration < max_iterations`
LoopContinues(iter, max_iterations) == iter < max_iterations

\* A slip: the call after the loop passes the tools again.
ToolsOfFinalCallKept(ts) == ts

\* The call after the loop passes no tools.
ToolsOfFinalCall(ts) == <<>>

\* The log entry of a provider call: the tool names sent, how much of the
\* conversation was sent, and what generate made of the answer.
ProviderCall(sent, resp) ==
    [tools |-> DefinedNames(sent), seen |-> Len(conversation), response |-> resp]

\* generate_with_tools, one pass of `while iteration < max_iterations` up to
\* the tool executions.
LoopGenerate(w) ==
    /\ tpc = "loop"
    /\ LoopContinues(iteration, max_tool_iterations)
    /\ RequestBuilds(provider, temperature)
    /\ MayAnswer(w)
    /\ iteration' = iteration + 1
    /\ response' = Generate(provider, w)
    /\ calls' = Append(calls, ProviderCall(tools, response'))
    /\ IF ~HasToolCalls(response')
       THEN /\ history' = conversation
            /\ tpc' = "run_returned"
            /\ UNCHANGED <<conversation, pending>>
       ELSE /\ conversation' = Append(conversation,
                                  AssistantMessage(response'.content, response'.tool_calls))
            /\ pending' = 1
            /\ tpc' = "tools"
            /\ UNCHANGED history
    /\ caller_list' = AfterAppend(conversation_ref, conversation')
    /\ UNCHANGED <<tools, execs, conversation_ref>>

\* A slip: the tool message carries no tool_call_id.
ToolMessageWithoutId(tool_call, result) ==
    ToolResultMessage(None, result.output, tool_call.name)

\* The tool message the loop appends for a tool call and its result.
ToolMessageFor(tool_call, result) ==
    ToolResultMessage(tool_call.id, result.output, tool_call.name)

\* generate_with_tools, `for tool_call in response.tool_calls`: one execution
\* by the registry and the tool message appended for it.
ExecuteToolCall ==
    /\ tpc = "tools"
    /\ LET tool_call == response.tool_calls[pending]
           r == RegistryExecute(BuiltinTools, tool_call.name, tool_call.arguments)
       IN /\ conversation' = Append(conversation, ToolMessageFor(tool_call, r.result))
          /\ execs' = Append(execs, [id |-> tool_call.id, name |-> tool_call.name,
                                     arguments |-> tool_call.arguments,
                                     ran |-> r.ran, result |-> r.result,
                                     at |-> Len(conversation) + 1])
    /\ pending' = IF pending < Len(response.tool_calls) THEN pending + 1 ELSE 0
    /\ tpc' = IF pending < Len(response.tool_calls) THEN "tools" ELSE "loop"
    /\ caller_list' = AfterAppend(conversation_ref, conversation')
    /\ UNCHANGED <<tools, iteration, response, history, calls, conversation_ref>>

\* generate_with_tools after the loop: "Max iterations reached", one more
\* generate without tools, returned as it is.
FinalGenerate(w) ==
    /\ tpc = "loop"
    /\ ~LoopContinues(iteration, max_tool_iterations)
    /\ RequestBuilds(provider, temperature)
    /\ MayAnswer(w)
    /\ response' = Generate(provider, w)
    /\ calls' = Append(calls, ProviderCall(ToolsOfFinalCall(tools), response'))
    /\ history' = conversation
    /\ tpc' = "run_returned"
    /\ UNCHANGED <<tools, conversation, iteration, pending, execs, caller_list,
                   conversation_ref>>

\* AgentRunner.run without tools: one generate, history is the messages.
SimpleGenerate(w) ==
    /\ tpc = "simple"
    /\ RequestBuilds(provider, temperature)
    /\ MayAnswer(w)
    /\ response' = Generate(provider, w)
    /\ calls' = Append(calls, ProviderCall(<<>>, response'))
    /\ history' = conversation
    /\ tpc' = "run_returned"
    /\ UNCHANGED <<tools, conversation, iteration, pending, execs, caller_list,
                   conversation_ref>>

\* generate raises while building the request: the exception leaves
\* generate_with_tools, run and the entry point; no provider is called.
GenerateRaises ==
    /\ tpc \in {"loop", "simple"}
    /\ ~RequestBuilds(provider, temperature)
    /\ tpc' = "raised"
    /\ UNCHANGED <<tools, conversation, iteration, response, pending, history, calls, execs,
                   caller_list, conversation_ref>>

\* After run returned: chat appends the assistant message, run and the
\* endpoint hand the history over as it is.
EntryReturn ==
    /\ tpc = "run_returned"
    /\ history' = IF entry = "chat"
                  THEN Append(history, AssistantMessage(response.content, response.tool_calls))
                  ELSE history
    /\ caller_list' = IF entry = "chat"
                       THEN AfterAppend(conversation_ref, history')
                       ELSE caller_list
    /\ tpc' = "done"
    /\ UNCHANGED <<tools, conversation, iteration, response, pending, calls, execs,
                   conversation_ref>>

TurnStep ==
    \/ TurnStart
    \/ \E w \in ProviderOutcomes : LoopGenerate(w) /\ UNCHANGED <<clock, timestamps>>
    \/ ExecuteToolCall /\ UNCHANGED <<clock, timestamps>>
    \/ \E w \in ProviderOutcomes : FinalGenerate(w) /\ UNCHANGED <<clock, timestamps>>
    \/ \E w \in ProviderOutcomes : SimpleGenerate(w) /\ UNCHANGED <<clock, timestamps>>
    \/ GenerateRaises /\ UNCHANGED <<clock, timestamps>>
    \/ EntryReturn /\ UNCHANGED <<clock, timestamps>>

\* ------------------------------------------------------------------------
\* commons/rate_limiter.py: RateLimiterRegistry
\* ------------------------------------------------------------------------
MaxRegistryOps == 5
MaxWindow == 2
AgentIds == {1, 2}
RegistryRpms == 1..MaxRpm

\* _limiters maps an agent id to its limiter; a limiter is an object (inst is
\* its identity) with its rpm and its window.  returned is the limiter the
\* last get_or_create handed out.  lastRpm and dropped remember what was
\* last asked for each agent; regOps counts the registry calls.
VARIABLES limiters, nextInst, returned, lastRpm, dropped, regOps

regVars == <<limiters, nextInst, returned, lastRpm, dropped, regOps>>

NoLimiter == [present |-> FALSE, inst |-> 0, rpm |-> 0, window |-> <<>>]
Limiter(inst, r) == [present |-> TRUE, inst |-> inst, rpm |-> r, window |-> <<>>]
NothingReturned == [serial |-> 0, agent |-> 0, limiter |-> NoLimiter]

RegistryInit ==
    /\ limiters = [a \in AgentIds |-> NoLimiter]
    /\ nextInst = 1
    /\ returned = NothingReturned
    /\ lastRpm = [a \in AgentIds |-> 0]
    /\ dropped = [a \in AgentIds |-> FALSE]
    /\ regOps = 0

\* A slip: a stored limiter is reused whatever its rpm.
NeedsNewLimiterIfAbsent(limiter, r) == ~limiter.present

\* `if limiter is None or limiter.rpm != rpm`
NeedsNewLimiter(limiter, r) == ~limiter.present \/ limiter.rpm # r

\* RateLimiterRegistry.get_or_create
GetOrCreate(a, r) ==
    /\ regOps < MaxRegistryOps
    /\ regOps' = regOps + 1
    /\ IF NeedsNewLimiter(limiters[a], r)
       THEN /\ limiters' = [limiters EXCEPT ![a] = Limiter(nextInst, r)]
            /\ nextInst' = nextInst + 1
       ELSE UNCHANGED <<limiters, nextInst>>
    /\ returned' = [serial |-> returned.serial + 1, agent |-> a, limiter |-> limiters'[a]]
    /\ lastRpm' = [lastRpm EXCEPT ![a] = r]
    /\ dropped' = [dropped EXCEPT ![a] = FALSE]

\* RateLimiterRegistry.remove
Remove(a) ==
    /\ regOps < MaxRegistryOps
    /\ regOps' = regOps + 1
    /\ limiters' = [limiters EXCEPT ![a] = NoLimiter]
    /\ dropped' = [dropped EXCEPT ![a] = TRUE]
    /\ UNCHANGED <<nextInst, returned, lastRpm>>

\* RateLimiterRegistry.clear
Clear ==
    /\ regOps < MaxRegistryOps
    /\ regOps' = regOps + 1
    /\ limiters' = [a \in AgentIds |-> NoLimiter]
    /\ dropped' = [a \in AgentIds |-> TRUE]
    /\ UNCHANGED <<nextInst, returned, lastRpm>>

\* An acquire on the limiter stored for a appends a timestamp to its window.
AcquireStored(a) ==
    /\ limiters[a].present
    /\ Len(limiters[a].window) < MaxWindow
    /\ limiters' = [limiters EXCEPT ![a].window = Append(@, clock)]
    /\ UNCHANGED <<nextInst, returned, lastRpm, dropped, regOps>>

RegistryStep ==
    \/ \E a \in AgentIds, r \in RegistryRpms : GetOrCreate(a, r)
    \/ \E a \in AgentIds : Remove(a)
    \/ Clear
    \/ \E a \in AgentIds : AcquireStored(a)

\* ------------------------------------------------------------------------
\* memory/search.py, memory/models.py: MemorySearchService indexing and the
\* embedding cache
\* ------------------------------------------------------------------------
MaxIndexCalls == 3

\* Callers of the service: one at a time, or concurrent (each statement that
\* reaches the database is one step).
Workers == {"w1", "w2"}
Contents == {"alpha", "beta"}
SourceIds == {1}
IndexedAgent == 1
EMBEDDING_MODEL == "all-MiniLM-L6-v2"

\* config.embedding_model of the services in use: the default and another.
EmbeddingModels == {EMBEDDING_MODEL, "all-mpnet-base-v2"}
MemoryOps == {"index_message", "index_summary", "get_embedding"}

VARIABLES
    chunks,     \* rows of EmbeddingChunk, in id order
    cache,      \* rows of EmbeddingCache
    embedder,   \* _get_embedder() found the encoder
    msched,     \* callers run "sequential" or "concurrent"
    mpc,        \* per worker: position inside its call
    mcall,      \* per worker: the call in progress and its arguments
    membedding, \* per worker: local variable embedding
    mexisting,  \* per worker: local variable existing (the row as read)
    mfresh,     \* the call that ended in the last step, with the row it had
                \* read and what it returned
    mstarted,   \* number of calls begun so far
    encodes     \* number of embedder.encode calls so far

memVars == <<chunks, cache, embedder, msched, mpc, mcall, membedding, mexisting,
             mfresh, mstarted, encodes>>

\* hashlib.sha256(text.encode()).hexdigest(): a digest of the text; distinct
\* texts of the model have distinct digests.
Sha256(text) == [sha256 |-> text]

\* SentenceTransformer(model).encode(text).tolist(): the vector of the text
\* under the model
Encode(model, text) == [model |-> model, vector_of |-> text]
NoVector == [model |-> None, vector_of |-> None]

NoChunk == [id |-> 0, agent_id |-> 0, source |-> None, source_id |-> 0, text |-> None,
            embedding |-> NoVector, embedding_model |-> None, content_hash |-> Sha256(None)]
NoCall == [op |-> None, model |-> None, source_id |-> 0, text |-> None]
NothingEnded == [worker |-> None, call |-> NoCall, status |-> None, existing |-> NoChunk,
                 chunk |-> NoChunk, vector |-> NoVector]

\* The source an indexing call writes under.
SourceOf(op) == IF op = "index_summary" THEN "summary" ELSE "message"

\* EmbeddingChunk.objects.filter(agent_id, source, source_id)
ChunksFor(agent, source, source_id) ==
    SelectSeq(chunks, LAMBDA row :
        row.agent_id = agent /\ row.source = source /\ row.source_id = source_id)

\* A slip: the cache is looked up by content_hash alone.
CachedForAnyModel(model, hash) ==
    SelectSeq(cache, LAMBDA row : row.content_hash = hash)

\* EmbeddingCache.objects.filter(embedding_model, content_hash)
CachedFor(model, hash) ==
    SelectSeq(cache, LAMBDA row : row.embedding_model = model /\ row.content_hash = hash)

\* .first(): the first row, or None
First(rows) == IF rows = <<>> THEN NoChunk ELSE Head(rows)

MemoryInit ==
    /\ chunks = <<>>
    /\ cache = <<>>
    /\ embedder \in BOOLEAN
    /\ mpc = [w \in Workers |-> "idle"]
    /\ mcall = [w \in Workers |-> NoCall]
    /\ membedding = [w \in Workers |-> NoVector]
    /\ mexisting = [w \in Workers |-> NoChunk]
    /\ mfresh = NothingEnded
    /\ mstarted = 0
    /\ encodes = 0

\* The call of worker w ends: returned or raised; its locals are gone.
Ends(w, status, chunk, vec) ==
    /\ mfresh' = [worker |-> w, call |-> mcall[w], status |-> status,
                  existing |-> mexisting[w], chunk |-> chunk, vector |-> vec]
    /\ mpc' = [mpc EXCEPT ![w] = "idle"]
    /\ mcall' = [mcall EXCEPT ![w] = NoCall]
    /\ membedding' = [membedding EXCEPT ![w] = NoVector]
    /\ mexisting' = [mexisting EXCEPT ![w] = NoChunk]

\* Entry of index_message / index_summary / get_embedding up to the cache
\* lookup; without an encoder get_embedding returns None and so does the
\* indexing call.
BeginCall(w, model, op, sid, text) ==
    /\ mpc[w] = "idle"
    /\ msched = "sequential" => \A v \in Workers : mpc[v] = "idle"
    /\ mstarted < MaxIndexCalls
    /\ mstarted' = mstarted + 1
    /\ IF embedder
       THEN /\ mpc' = [mpc EXCEPT ![w] = "cache_lookup"]
            /\ mcall' = [mcall EXCEPT ![w] = [op |-> op, model |-> model, source_id |-> sid,
                                             text |-> text]]
            /\ mfresh' = NothingEnded
            /\ UNCHANGED <<membedding, mexisting>>
       ELSE /\ mfresh' = [worker |-> w,
                          call |-> [op |-> op, model |-> model, source_id |-> sid,
                                    text |-> text],
                          status |-> "returned", existing |-> NoChunk, chunk |-> NoChunk,
                          vector |-> NoVector]
            /\ UNCHANGED <<mpc, mcall, membedding, mexisting>>
    /\ UNCHANGED <<chunks, cache, embedder, msched, encodes>>

\* get_embedding has its vector: it returns it, and an indexing call goes
\* on with it.
AfterEmbedding(w, vec) ==
    IF mcall[w].op = "get_embedding"
    THEN Ends(w, "returned", NoChunk, vec)
    ELSE /\ membedding' = [membedding EXCEPT ![w] = vec]
         /\ mpc' = [mpc EXCEPT ![w] = "chunk_lookup"]
         /\ mfresh' = NothingEnded
         /\ UNCHANGED <<mcall, mexisting>>

\* get_embedding, "Check cache first"
CacheLookup(w) ==
    /\ mpc[w] = "cache_lookup"
    /\ LET cached == CachedFor(mcall[w].model, Sha256(mcall[w].text))
       IN IF cached # <<>>
          THEN AfterEmbedding(w, Head(cached).embedding)
          ELSE /\ mpc' = [mpc EXCEPT ![w] = "cache_create"]
               /\ mfresh' = NothingEnded
               /\ UNCHANGED <<mcall, membedding, mexisting>>
    /\ UNCHANGED <<chunks, cache, embedder, msched, mstarted, encodes>>

\* get_embedding, "Cache it": EmbeddingCache.objects.create; the table is
\* unique on (embedding_model, content_hash), so inserting a key that is
\* there raises IntegrityError, which nothing catches.
CacheCreate(w) ==
    /\ mpc[w] = "cache_create"
    /\ LET hash == Sha256(mcall[w].text)
           vec == Encode(mcall[w].model, mcall[w].text)
       IN IF CachedFor(mcall[w].model, hash) # <<>>
          THEN /\ Ends(w, "raised", NoChunk, NoVector)
               /\ UNCHANGED cache
          ELSE /\ cache' = Append(cache, [embedding_model |-> mcall[w].model,
                                          content_hash |-> hash, embedding |-> vec])
               /\ AfterEmbedding(w, vec)
    /\ encodes' = encodes + 1
    /\ UNCHANGED <<chunks, embedder, msched, mstarted>>

\* index_message / index_summary, "Check if already indexed"
ChunkLookup(w) ==
    /\ mpc[w] = "chunk_lookup"
    /\ mexisting' = [mexisting EXCEPT ![w] =
                        First(ChunksFor(IndexedAgent, SourceOf(mcall[w].op), mcall[w].source_id))]
    /\ mpc' = [mpc EXCEPT ![w] = "chunk_write"]
    /\ mfresh' = NothingEnded
    /\ UNCHANGED <<chunks, cache, embedder, msched, mcall, membedding, mstarted, encodes>>

\* A slip: the update leaves the old vector in the row.
SavedWithoutVector(existing, text, vec, hash) ==
    [existing EXCEPT !.text = text, !.content_hash = hash]

\* existing.save() after the three assignments: the row with existing's id
\* takes the fields of the object in memory.
Saved(existing, text, vec, hash) ==
    [existing EXCEPT !.text = text, !.embedding = vec, !.content_hash = hash]

\* index_message / index_summary from `if existing:` on: update the row
\* when the hash differs and return it, or create a new row.
ChunkWrite(w) ==
    /\ mpc[w] = "chunk_write"
    /\ LET hash == Sha256(mcall[w].text)
           existing == mexisting[w]
       IN IF existing # NoChunk
          THEN IF existing.content_hash # hash
               THEN LET row == Saved(existing, mcall[w].text, membedding[w], hash)
                    IN /\ chunks' = [i \in DOMAIN chunks |->
                                        IF chunks[i].id = row.id THEN row ELSE chunks[i]]
                       /\ Ends(w, "returned", row, NoVector)
               ELSE /\ UNCHANGED chunks
                    /\ Ends(w, "returned", existing, NoVector)
          ELSE LET row == [id |-> Len(chunks) + 1, agent_id |-> IndexedAgent,
                           source |-> SourceOf(mcall[w].op),
                           source_id |-> mcall[w].source_id, text |-> mcall[w].text,
                           embedding |-> membedding[w],
                           embedding_model |-> mcall[w].model, content_hash |-> hash]
               IN /\ chunks' = Append(chunks, row)
                  /\ Ends(w, "returned", row, NoVector)
    /\ UNCHANGED <<cache, embedder, msched, mstarted, encodes>>

MemoryStep ==
    \/ \E w \in Workers, model \in EmbeddingModels, op \in MemoryOps, sid \in SourceIds,
          text \in Contents :
          BeginCall(w, model, op, sid, text)
    \/ \E w \in Workers : CacheLookup(w)
    \/ \E w \in Workers : CacheCreate(w)
    \/ \E w \in Workers : ChunkLookup(w)
    \/ \E w \in Workers : ChunkWrite(w)

\* ------------------------------------------------------------------------
\* memory/search.py: text_search, vector_search, hybrid_search, search
\* ------------------------------------------------------------------------
MaxRows == 2

\* Scores are in thousandths, weights in tenths.
SCORE_ONE == 1000
WEIGHT_ONE == 10
MIN_SCORE == 350
VECTOR_WEIGHT == 7
TEXT_WEIGHT == 3
MaxResultsChoices == {1, 2}

\* Texts are strings of characters.
foo == <<"f", "o", "o">>
bar_foo == <<"b", "a", "r", " ", "f", "o", "o">>
Foo_bar == <<"F", "o", "o", " ", "b", "a", "r">>
foo_bar == <<"f", "o", "o", " ", "b", "a", "r">>
Bar == <<"B", "a", "r">>
StoredTexts == {foo, bar_foo, Foo_bar}
Queries == {foo_bar, Bar}

\* Session s is handled by agent s.
SessionIds == {1, 2}
AgentOfSession(s) == s
SearchTypes == {"hybrid", "vector", "text"}

VARIABLES
    messages,   \* rows of Message, in creation order
    summaries,  \* rows of ConversationSummary, in creation order
    config,     \* MemorySearchConfig of the service
    spc,        \* "idle" before the search, "done" after it
    scall,      \* arguments of the search
    svector,    \* what vector_search returned to the call
    stext,      \* what text_search returned to the call
    sresults    \* what search returned

searchVars == <<messages, summaries, config, spc, scall, svector, stext, sresults>>

\* str.lower()
LowerChar(ch) ==
    CASE ch = "F" -> "f"
      [] ch = "B" -> "b"
      [] OTHER -> ch
Lower(s) == [i \in DOMAIN s |-> LowerChar(s[i])]

\* str.split(): the maximal runs of non-blank characters
RECURSIVE SplitWords(_, _, _)
SplitWords(s, word, words) ==
    IF s = <<>>
    THEN IF word = <<>> THEN words ELSE Append(words, word)
    ELSE IF Head(s) = " "
    THEN SplitWords(Tail(s), <<>>, IF word = <<>> THEN words ELSE Append(words, word))
    ELSE SplitWords(Tail(s), Append(word, Head(s)), words)
Split(s) == SplitWords(s, <<>>, <<>>)

\* needle in hay
Contains(hay, needle) ==
    \E i \in 0..(Len(hay) - Len(needle)) : SubSeq(hay, i + 1, i + Len(needle)) = needle

\* content__icontains=needle
IContains(hay, needle) == Contains(Lower(hay), Lower(needle))

\* seq[:n]
Take(seq, n) == SubSeq(seq, 1, IF n < Len(seq) THEN n ELSE Len(seq))

\* order_by("-created_datetime") of rows kept in creation order
NewestFirst(rows) == [i \in DOMAIN rows |-> rows[Len(rows) + 1 - i]]

MemorySearchResult(content, score, source, message_id, summary_id) ==
    [content |-> content, score |-> score, source |-> source,
     message_id |-> message_id, summary_id |-> summary_id]

\* list.sort(key=score, reverse=True): stable, equal scores keep their order
InsertByScore(sorted, r) ==
    LET k == Cardinality({i \in DOMAIN sorted : sorted[i].score >= r.score})
    IN SubSeq(sorted, 1, k) \o <<r>> \o SubSeq(sorted, k + 1, Len(sorted))
RECURSIVE SortByScore(_)
SortByScore(rs) ==
    IF rs = <<>> THEN <<>>
    ELSE InsertByScore(SortByScore(SubSeq(rs, 1, Len(rs) - 1)), rs[Len(rs)])

\* The session / agent restriction of text_search: the session when one is
\* given, else the agent when one is given, else none.
InTextScope(row, session, agent_id) ==
    IF session # 0 THEN row.session = session
    ELSE IF agent_id # 0 THEN AgentOfSession(row.session) = agent_id
    ELSE TRUE

\* matches / len(words)
TextScore(content, words) ==
    IF words = <<>> THEN 0
    ELSE (Cardinality({i \in DOMAIN words : Contains(Lower(content), words[i])}) * SCORE_ONE)
            \div Len(words)

\* summary_qs.filter(summary__icontains=query): the whole query string
SummaryMatches(summary, query) == IContains(summary, query)

TextSearch(query, session, agent_id) ==
    LET words == Split(Lower(query))
        msgs == Take(NewestFirst(SelectSeq(messages, LAMBDA m :
                        /\ InTextScope(m, session, agent_id)
                        /\ (words = <<>> \/ \E i \in DOMAIN words : IContains(m.content, words[i])))),
                     config.max_results * 2)
        sums == Take(NewestFirst(SelectSeq(summaries, LAMBDA s :
                        /\ InTextScope(s, session, agent_id)
                        /\ SummaryMatches(s.summary, query))),
                     config.max_results)
        fromMsgs == [i \in DOMAIN msgs |->
                        MemorySearchResult(msgs[i].content, TextScore(msgs[i].content, words),
                                           "message", msgs[i].id, 0)]
        fromSums == [i \in DOMAIN sums |->
                        MemorySearchResult(sums[i].summary, TextScore(sums[i].summary, words),
                                           "summary", 0, sums[i].id)]
        results == SelectSeq(fromMsgs, LAMBDA r : r.score >= config.min_score)
                      \o SelectSeq(fromSums, LAMBDA r : r.score >= config.min_score)
    IN Take(SortByScore(results), config.max_results)

\* 1 - CosineDistance(a, b) of two vectors of the encoder: the closer the
\* texts, the higher.
CosineSimilarity(a, b) ==
    LET ta == Lower(a.vector_of)
        tb == Lower(b.vector_of)
        wa == Range(Split(ta))
        wb == Range(Split(tb))
    IN IF ta = tb THEN SCORE_ONE
       ELSE IF wa = wb THEN 800
       ELSE IF wa \cap wb # {} THEN 500
       ELSE 100

\* The restriction of vector_search: the agent when one is given.
InVectorScope(row, agent_id) == agent_id # 0 => row.agent_id = agent_id

\* order_by("distance"): the rows by rising distance, rows at the same
\* distance in any order.
DistanceOrders(rows, query_embedding) ==
    {ord \in [DOMAIN rows -> DOMAIN rows] :
        /\ \A i, j \in DOMAIN rows : ord[i] = ord[j] => i = j
        /\ \A i, j \in DOMAIN rows :
              i < j => CosineSimilarity(rows[ord[i]].embedding, query_embedding)
                          >= CosineSimilarity(rows[ord[j]].embedding, query_embedding)}

\* vector_search once the query has its embedding, for one order of the rows
VectorSearch(query_embedding, agent_id, ord) ==
    LET rows == SelectSeq(chunks, LAMBDA c : InVectorScope(c, agent_id))
        nearest == Take([i \in DOMAIN rows |-> rows[ord[i]]], config.max_results)
        found == [i \in DOMAIN nearest |->
                    MemorySearchResult(nearest[i].text,
                                       CosineSimilarity(nearest[i].embedding, query_embedding),
                                       nearest[i].source,
                                       IF nearest[i].source = "message"
                                       THEN nearest[i].source_id ELSE 0,
                                       IF nearest[i].source = "summary"
                                       THEN nearest[i].source_id ELSE 0)]
    IN SelectSeq(found, LAMBDA r : r.score >= config.min_score)

\* f"{result.source}:{result.message_id or result.summary_id}"
ResultKey(r) ==
    [source |-> r.source, id |-> IF r.message_id # 0 THEN r.message_id ELSE r.summary_id]

Weighted(score, weight) == (score * weight) \div WEIGHT_ONE

\* combined[key] = result, for a dict kept as its values in insertion order
PutResult(combined, r) ==
    IF \E i \in DOMAIN combined : ResultKey(combined[i]) = ResultKey(r)
    THEN [i \in DOMAIN combined |->
            IF ResultKey(combined[i]) = ResultKey(r) THEN r ELSE combined[i]]
    ELSE Append(combined, r)

\* A slip: a row found by both searches takes the text score alone.
AddTextResultOverwriting(combined, r, text_weight) ==
    PutResult(combined, [r EXCEPT !.score = Weighted(r.score, text_weight)])

\* The body of the loop over text_results
AddTextResult(combined, r, text_weight) ==
    IF \E i \in DOMAIN combined : ResultKey(combined[i]) = ResultKey(r)
    THEN [i \in DOMAIN combined |->
            IF ResultKey(combined[i]) = ResultKey(r)
            THEN [combined[i] EXCEPT !.score = @ + Weighted(r.score, text_weight)]
            ELSE combined[i]]
    ELSE Append(combined, [r EXCEPT !.score = Weighted(r.score, text_weight)])

RECURSIVE AddVectorResults(_, _, _)
AddVectorResults(combined, rs, vector_weight) ==
    IF rs = <<>> THEN combined
    ELSE AddVectorResults(
            PutResult(combined, [Head(rs) EXCEPT !.score = Weighted(@, vector_weight)]),
            Tail(rs), vector_weight)

RECURSIVE AddTextResults(_, _, _)
AddTextResults(combined, rs, text_weight) ==
    IF rs = <<>> THEN combined
    ELSE AddTextResults(AddTextResult(combined, Head(rs), text_weight), Tail(rs), text_weight)

\* hybrid_search from "Combine scores" on
Combine(vector_results, text_results) ==
    LET combined == AddTextResults(
                        AddVectorResults(<<>>, vector_results, config.vector_weight),
                        text_results, config.text_weight)
    IN Take(SortByScore(combined), config.max_results)

NoSearch == [query |-> <<>>, session |-> 0, agent_id |-> 0, search_type |-> None]

\* A stored row and the chunk index_message / index_summary makes of it.
MessageRow(id, session, content) == [id |-> id, session |-> session, content |-> content]
SummaryRow(id, session, summary) == [id |-> id, session |-> session, summary |-> summary]
ChunkOf(id, source, row, text) ==
    [id |-> id, agent_id |-> AgentOfSession(row.session), source |-> source,
     source_id |-> row.id, text |-> text, embedding |-> Encode(EMBEDDING_MODEL, text),
     embedding_model |-> EMBEDDING_MODEL, content_hash |-> Sha256(text)]

\* The session and text of at most n rows, in creation order.
RowsUpTo(n) == UNION {[1..k -> SessionIds \X StoredTexts] : k \in 0..n}

\* The chunks of the indexed rows, in the order of indexing: messages, then
\* summaries.
ChunksOfIndexed(msgs, sums, indexedMsgs, indexedSums) ==
    LET im == SelectSeq(msgs, LAMBDA m : m.id \in indexedMsgs)
        is == SelectSeq(sums, LAMBDA s : s.id \in indexedSums)
    IN [i \in 1..(Len(im) + Len(is)) |->
            IF i <= Len(im) THEN ChunkOf(i, "message", im[i], im[i].content)
            ELSE ChunkOf(i, "summary", is[i - Len(im)], is[i - Len(im)].summary)]

SearchIdle ==
    /\ messages = <<>>
    /\ summaries = <<>>
    /\ config = [enabled |-> TRUE, max_results |-> 1, min_score |-> MIN_SCORE,
                 vector_weight |-> VECTOR_WEIGHT, text_weight |-> TEXT_WEIGHT]
    /\ spc = "done"
    /\ scall = NoSearch
    /\ svector = <<>>
    /\ stext = <<>>
    /\ sresults = <<>>

\* A store of messages and summaries, some of them indexed, a service
\* configuration, and no search made yet.
SearchInit ==
    /\ \E ms \in RowsUpTo(MaxRows), ss \in RowsUpTo(MaxRows) :
          /\ Len(ms) + Len(ss) <= MaxRows
          /\ messages = [i \in DOMAIN ms |-> MessageRow(i, ms[i][1], ms[i][2])]
          /\ summaries = [i \in DOMAIN ss |-> SummaryRow(i, ss[i][1], ss[i][2])]
    /\ \E indexedMsgs \in SUBSET DOMAIN messages, indexedSums \in SUBSET DOMAIN summaries :
          chunks = ChunksOfIndexed(messages, summaries, indexedMsgs, indexedSums)
    /\ config \in [enabled : BOOLEAN, max_results : MaxResultsChoices, min_score : {MIN_SCORE},
                   vector_weight : {VECTOR_WEIGHT}, text_weight : {TEXT_WEIGHT}]
    /\ spc = "idle"
    /\ scall = NoSearch
    /\ svector = <<>>
    /\ stext = <<>>
    /\ sresults = <<>>

\* MemorySearchService.search(query, session, agent_id, search_type), with
\* the vector and text searches it makes; vector_search asks get_embedding
\* for the query's vector, which caches it, and returns nothing without an
\* encoder.
Search(query, session, agent_id, search_type) ==
    /\ spc = "idle"
    /\ spc' = "done"
    /\ scall' = [query |-> query, session |-> session, agent_id |-> agent_id,
                 search_type |-> search_type]
    /\ LET runsVector == search_type = "vector" \/ (search_type = "hybrid" /\ config.enabled)
           runsText == search_type = "text" \/ (search_type = "hybrid" /\ config.enabled)
           cached == CachedFor(EMBEDDING_MODEL, Sha256(query))
           query_embedding == IF cached # <<>> THEN Head(cached).embedding
                              ELSE Encode(EMBEDDING_MODEL, query)
       IN /\ IF runsVector /\ embedder /\ cached = <<>>
             THEN /\ cache' = Append(cache, [embedding_model |-> EMBEDDING_MODEL,
                                             content_hash |-> Sha256(query),
                                             embedding |-> query_embedding])
                  /\ encodes' = encodes + 1
             ELSE UNCHANGED <<cache, encodes>>
          /\ IF runsVector /\ embedder
             THEN \E ord \in DistanceOrders(
                                SelectSeq(chunks, LAMBDA c : InVectorScope(c, agent_id)),
                                query_embedding) :
                     svector' = VectorSearch(query_embedding, agent_id, ord)
             ELSE svector' = <<>>
          /\ stext' = IF runsText THEN TextSearch(query, session, agent_id) ELSE <<>>
          /\ sresults' = CASE search_type = "vector" -> svector'
                           [] search_type = "text" -> stext'
                           [] OTHER -> IF config.enabled THEN Combine(svector', stext')
                                       ELSE <<>>
    /\ UNCHANGED <<messages, summaries, config, chunks, embedder, msched, mpc, mcall,
                   membedding, mexisting, mfresh, mstarted>>

SearchStep ==
    \E query \in Queries, session \in {0} \cup SessionIds, agent_id \in {0, 1},
       search_type \in SearchTypes :
        Search(query, session, agent_id, search_type)

\* ------------------------------------------------------------------------
\* agents/tools: one call of a built-in tool through the registry
\* ------------------------------------------------------------------------
MaxExprLen == 3

\* Characters of the expressions tried: digits and the division sign, which
\* are allowed, and a letter, the underscore, the percent sign and a quote,
\* which are not.
CalcAlphabet == {"1", "0", "/", "a", "_", "%", "'"}
Expressions == UNION {[1..k -> CalcAlphabet] : k \in 0..MaxExprLen}

utc == <<"U", "T", "C">>
bogus == <<"b", "o", "g", "u", "s">>
lit_true == <<"T", "r", "u", "e">>
lit_2_5 == <<"2", ".", "5">>

\* A parameter left out, or given with one of the values.
Supplied(k, values) == {<<>>} \cup {<<Item(k, v)>> : v \in values}

\* The params dicts tried for each built-in tool: each declared parameter
\* left out or given with values of several Python types, and an undeclared
\* parameter left out or added.
ParamsTried(tool) ==
    LET extra == Supplied("unknown_param", {PyVal("str", bogus)})
        declared ==
            IF tool = calculator
            THEN Supplied("expression",
                          {PyVal("str", e) : e \in Expressions}
                             \cup {PyVal("str", expr_6x7), PyVal("int", lit_123)})
            ELSE IF tool = get_datetime
            THEN {a \o b :
                    a \in Supplied("timezone", {PyVal("str", utc)}),
                    b \in Supplied("output_format",
                                   {PyVal("str", iso), PyVal("str", human),
                                    PyVal("str", bogus), PyVal("int", lit_123)})}
            ELSE IF tool = web_search
            THEN {a \o b :
                    a \in Supplied("query", {PyVal("str", bogus), PyVal("int", lit_123)}),
                    b \in Supplied("num_results",
                                   {PyVal("int", lit_123), PyVal("float", lit_2_5),
                                    PyVal("bool", lit_true), PyVal("str", lit_123)})}
            ELSE {a \o b \o c :
                    a \in Supplied("query", {PyVal("str", bogus)}),
                    b \in Supplied("search_type",
                                   {PyVal("str", hybrid), PyVal("str", bogus),
                                    PyVal("int", lit_123)}),
                    c \in Supplied("max_results",
                                   {PyVal("int", lit_123), PyVal("bool", lit_true)})}
    IN {d \o x : d \in declared, x \in extra}

VARIABLES
    tc_tool,        \* the tool called
    tc_params,      \* the params dict of the call
    tc_pc,          \* "idle" before the call, "done" after it
    tc_valid,       \* what validate_params says of the params
    tc_result,      \* what registry.execute returned, and whether the body ran
    tc_body,        \* what the tool body did when it ran: a result or an exception
    tc_evaluated    \* the calculator reached eval

toolCallVars == <<tc_tool, tc_params, tc_pc, tc_valid, tc_result, tc_body, tc_evaluated>>

NoExecution == [result |-> ToolResultFromError(NoText), ran |-> FALSE]
NoBody == Returned(ToolResultFromError(NoText))

ToolCallIdle ==
    /\ tc_tool = calculator
    /\ tc_params = <<>>
    /\ tc_pc = "done"
    /\ tc_valid = NoText
    /\ tc_result = NoExecution
    /\ tc_body = NoBody
    /\ tc_evaluated = FALSE

ToolCallInit ==
    /\ tc_tool \in Range(BuiltinTools)
    /\ tc_params \in ParamsTried(tc_tool)
    /\ tc_pc = "idle"
    /\ tc_valid = NoText
    /\ tc_result = NoExecution
    /\ tc_body = NoBody
    /\ tc_evaluated = FALSE

\* tool.validate_params(params) and registry.execute(name, params) on the
\* runner's registry
CallTool ==
    /\ tc_pc = "idle"
    /\ tc_pc' = "done"
    /\ tc_valid' = ValidateParams(tc_tool, tc_params)
    /\ tc_result' = RegistryExecute(BuiltinTools, tc_tool, tc_params)
    /\ tc_body' = IF tc_result'.ran THEN ToolExecute(tc_tool, tc_params) ELSE NoBody
    /\ tc_evaluated' =
          /\ tc_result'.ran
          /\ tc_tool = calculator
          /\ CalculatorEvaluates(tc_params[ValueOf(tc_params, "expression")].val.lit)
    /\ UNCHANGED <<tc_tool, tc_params>>

\* ------------------------------------------------------------------------
\* agents/llm/*_client.py: generate and _convert_messages, the request each
\* client sends for a canonical message list
\* ------------------------------------------------------------------------
MaxMessages == 3

unknown == <<"u", "n", "k", "n", "o", "w", "n">>

\* LLMMessage.system(content)
SystemMessage(content) == LLMMessage("system", content, <<>>, None, no_name)

\* The canonical messages a history is made of.
CanonicalMessages ==
    { SystemMessage(Txt("be brief", "")),
      UserMessage(Txt("hello", "")),
      AssistantMessage(Txt("hi", ""), <<>>),
      AssistantMessage(EmptyText,
                       <<ToolCall("tu_a", calculator, StrArg("expression", expr_6x7))>>),
      ToolResultMessage("tu_a", Txt("42", ""), calculator) }
SystemPrompts == {NoText, Txt("you are marvin", "")}

VARIABLES
    wq_provider,      \* the client that builds the request
    wq_messages,      \* argument messages of generate
    wq_system_prompt, \* argument system_prompt of generate, NoText for None
    wq_pc,            \* "ready" before generate builds the request, "sent" after
    wq_request        \* the request as handed to the provider's SDK

wireVars == <<wq_provider, wq_messages, wq_system_prompt, wq_pc, wq_request>>

\* One message of the provider's message list.
WireMessage(role, content, tool_call_id, name, tool_calls) ==
    [role |-> role, content |-> content, tool_call_id |-> tool_call_id, name |-> name,
     tool_calls |-> tool_calls]

\* json.dumps(tc.arguments)
JsonDumps(arguments) == <<Item("json", PyVal("str", arguments))>>

\* `msg.content or None`, and the text block added only `if msg.content`
ContentOrNone(content) == IF content = EmptyText THEN NoText ELSE content

\* The branch of _convert_messages that a message takes, in each client.
ConvertMessage(prov, msg) ==
    CASE prov = "anthropic" ->
           IF msg.role = "tool"
           THEN WireMessage("user", msg.content, msg.tool_call_id, no_name, <<>>)
           ELSE IF msg.role = "assistant" /\ msg.tool_calls # <<>>
           THEN WireMessage("assistant", ContentOrNone(msg.content), None, no_name,
                            msg.tool_calls)
           ELSE WireMessage(msg.role, msg.content, None, no_name, <<>>)
      [] prov = "gemini" ->
           IF msg.role = "tool"
           THEN WireMessage("user", msg.content, None,
                            IF msg.name = no_name THEN unknown ELSE msg.name, <<>>)
           ELSE IF msg.role = "assistant" /\ msg.tool_calls # <<>>
           THEN WireMessage("model", ContentOrNone(msg.content), None, no_name,
                            [i \in DOMAIN msg.tool_calls |->
                                ToolCall(None, msg.tool_calls[i].name,
                                         msg.tool_calls[i].arguments)])
           ELSE IF msg.role = "assistant"
           THEN WireMessage("model", msg.content, None, no_name, <<>>)
           ELSE WireMessage("user", msg.content, None, no_name, <<>>)
      [] prov = "vllm" ->
           IF msg.role = "tool"
           THEN WireMessage("tool", msg.content, msg.tool_call_id, no_name, <<>>)
           ELSE IF msg.role = "assistant" /\ msg.tool_calls # <<>>
           THEN WireMessage("assistant", ContentOrNone(msg.content), None, no_name,
                            [i \in DOMAIN msg.tool_calls |->
                                ToolCall(msg.tool_calls[i].id, msg.tool_calls[i].name,
                                         JsonDumps(msg.tool_calls[i].arguments))])
           ELSE WireMessage(msg.role, msg.content, None, no_name, <<>>)
      [] OTHER ->
           IF msg.role = "tool"
           THEN WireMessage("tool", msg.content, None, no_name, <<>>)
           ELSE IF msg.role = "assistant" /\ msg.tool_calls # <<>>
           THEN WireMessage("assistant", msg.content, None, no_name,
                            [i \in DOMAIN msg.tool_calls |->
                                ToolCall(None, msg.tool_calls[i].name,
                                         msg.tool_calls[i].arguments)])
           ELSE WireMessage(msg.role, msg.content, None, no_name, <<>>)

\* `if msg.role == MessageRole.SYSTEM: continue` of the Anthropic and the
\* Gemini client
Skipped(prov, msg) == prov \in {"anthropic", "gemini"} /\ msg.role = "system"

\* _convert_messages: the wire messages of the messages not skipped, in order
RECURSIVE ConvertMessages(_, _)
ConvertMessages(prov, msgs) ==
    IF msgs = <<>>
    THEN <<>>
    ELSE (IF Skipped(prov, Head(msgs))
          THEN <<>>
          ELSE <<ConvertMessage(prov, Head(msgs))>>)
         \o ConvertMessages(prov, Tail(msgs))

\* generate up to the SDK call: Anthropic passes system=system_prompt and
\* Gemini sets config["system_instruction"] when there is a prompt; the
\* OpenAI-compatible and the Ollama client put the prompt first in the list.
BuildRequest(prov, msgs, system_prompt) ==
    IF prov \in {"anthropic", "gemini"}
    THEN [system |-> system_prompt, messages |-> ConvertMessages(prov, msgs)]
    ELSE [system |-> NoText,
          messages |-> (IF system_prompt # NoText
                        THEN <<WireMessage("system", system_prompt, None, no_name, <<>>)>>
                        ELSE <<>>)
                       \o ConvertMessages(prov, msgs)]

NoRequest == [system |-> NoText, messages |-> <<>>]

WireIdle ==
    /\ wq_provider = "anthropic"
    /\ wq_messages = <<>>
    /\ wq_system_prompt = NoText
    /\ wq_pc = "sent"
    /\ wq_request = NoRequest

WireInit ==
    /\ wq_provider \in Providers
    /\ wq_messages \in UNION {[1..n -> CanonicalMessages] : n \in 0..MaxMessages}
    /\ wq_system_prompt \in SystemPrompts
    /\ wq_pc = "ready"
    /\ wq_request = NoRequest

\* generate, from its entry to the request it hands to the SDK
SendRequest ==
    /\ wq_pc = "ready"
    /\ wq_request' = BuildRequest(wq_provider, wq_messages, wq_system_prompt)
    /\ wq_pc' = "sent"
    /\ UNCHANGED <<wq_provider, wq_messages, wq_system_prompt>>

\* ------------------------------------------------------------------------
\* Specifications
\* ------------------------------------------------------------------------
vars ==
    <<limVars, agentVars, toolVars, requestVars, turnVars, regVars, memVars, searchVars,
      toolCallVars, wireVars>>

\* Each specification exercises one part of the program and holds the
\* variables of the other parts at rest.
LimIdle ==
    /\ LimInitCommon
    /\ rpm = 0
    /\ sched = "sequential"

AgentIdle ==
    /\ tool_profile = "full"
    /\ tools_allow = {}
    /\ tools_deny = {}

ResolveIdle ==
    /\ available_tools = <<>>
    /\ allowed_result = <<>>
    /\ resolved = FALSE

ToolsIdle == AgentIdle /\ ResolveIdle

TurnIdle ==
    /\ provider = "anthropic"
    /\ entry = "run"
    /\ enable_tools = FALSE
    /\ tool_names = <<>>
    /\ max_tool_iterations = 0
    /\ rate_limit_enabled = FALSE
    /\ temperature = 7
    /\ passed = <<>>
    /\ tpc = "done"
    /\ tools = <<>>
    /\ conversation = <<>>
    /\ iteration = 0
    /\ response = NoResponse
    /\ pending = 0
    /\ history = <<>>
    /\ calls = <<>>
    /\ execs = <<>>
    /\ caller_list = <<>>
    /\ conversation_ref = None

MemoryIdle == MemoryInit /\ embedder = FALSE /\ msched = "sequential"

LimNext ==
    /\ LimStep
    /\ UNCHANGED <<agentVars, toolVars, requestVars, turnVars, regVars, memVars, searchVars,
                   toolCallVars, wireVars>>

\* One caller at a time.
LimInitSeq ==
    /\ LimInitCommon /\ sched = "sequential"
    /\ ToolsIdle /\ TurnIdle /\ RegistryInit /\ MemoryIdle /\ SearchIdle /\ ToolCallIdle /\ WireIdle
SpecLimiter == LimInitSeq /\ [][LimNext]_vars

\* Concurrent callers: threads calling acquire, or tasks of one event loop
\* calling acquire_async.
LimInitConc ==
    /\ LimInitCommon /\ sched \in {"threads", "tasks"}
    /\ ToolsIdle /\ TurnIdle /\ RegistryInit /\ MemoryIdle /\ SearchIdle /\ ToolCallIdle /\ WireIdle
SpecLimiterConc == LimInitConc /\ [][LimNext]_vars

\* Concurrent callers under fair scheduling: time passes, and a thread or
\* task that is ready again and again gets to run.
LimFairness ==
    /\ SF_vars(Tick /\ LimNext)
    /\ \A c \in Callers :
          /\ SF_vars(LockedRead(c) /\ LimNext)
          /\ SF_vars(ReadNow(c) /\ LimNext)
          /\ SF_vars(LockedAppend(c) /\ LimNext)
SpecLimiterFair == LimInitConc /\ [][LimNext]_vars /\ LimFairness

\* Tool resolution for every agent configuration and list of names.
ToolsSpecInit ==
    /\ ToolsInit
    /\ LimIdle /\ TurnIdle /\ RegistryInit /\ MemoryIdle /\ SearchIdle /\ ToolCallIdle /\ WireIdle
ToolsNext ==
    /\ CallGetAllowedTools
    /\ UNCHANGED <<limVars, requestVars, turnVars, regVars, memVars, searchVars, toolCallVars, wireVars>>
SpecTools == ToolsSpecInit /\ [][ToolsNext]_vars

\* One turn of an agent, for every request, tool policy, provider and
\* provider behaviour.
TurnSpecInit ==
    /\ TurnInit
    /\ LimInitCommon
    /\ sched = "sequential"
    /\ ~rate_limit_enabled => rpm = 0
    /\ rpm \in {0, 1}   \* the turn is the limiter's only caller: unlimited or limited
    /\ ResolveIdle
    /\ RegistryInit /\ MemoryIdle /\ SearchIdle /\ ToolCallIdle /\ WireIdle
TurnNext ==
    /\ TurnStep
    /\ UNCHANGED <<rpm, sched, loopOwner, lpc, lop, lnow, lwait, lwake, fresh, started,
                   waiters>>
    /\ UNCHANGED <<agentVars, toolVars, requestVars, regVars, memVars, searchVars,
                   toolCallVars, wireVars>>
SpecTurn == TurnSpecInit /\ [][TurnNext]_vars

\* The limiter registry under any sequence of its calls.
RegistrySpecInit ==
    /\ RegistryInit
    /\ LimIdle /\ ToolsIdle /\ TurnIdle /\ MemoryIdle /\ SearchIdle /\ ToolCallIdle /\ WireIdle
RegistryNext ==
    /\ RegistryStep
    /\ UNCHANGED <<limVars, agentVars, toolVars, requestVars, turnVars, memVars, searchVars,
                   toolCallVars, wireVars>>
SpecRegistry == RegistrySpecInit /\ [][RegistryNext]_vars

\* The memory index and the embedding cache, with one caller at a time and
\* with concurrent callers.
MemoryNext ==
    /\ MemoryStep
    /\ UNCHANGED <<limVars, agentVars, toolVars, requestVars, turnVars, regVars, searchVars,
                   toolCallVars, wireVars>>
MemoryInitSeq ==
    /\ MemoryInit /\ msched = "sequential"
    /\ LimIdle /\ ToolsIdle /\ TurnIdle /\ RegistryInit /\ SearchIdle /\ ToolCallIdle /\ WireIdle
SpecMemory == MemoryInitSeq /\ [][MemoryNext]_vars
MemoryInitConc ==
    /\ MemoryInit /\ msched = "concurrent"
    /\ LimIdle /\ ToolsIdle /\ TurnIdle /\ RegistryInit /\ SearchIdle /\ ToolCallIdle /\ WireIdle
SpecMemoryConc == MemoryInitConc /\ [][MemoryNext]_vars

\* One search over every small store of messages, summaries and chunks.
SearchSpecInit ==
    /\ SearchInit
    /\ cache = <<>>
    /\ embedder \in BOOLEAN
    /\ msched = "sequential"
    /\ mpc = [w \in Workers |-> "idle"]
    /\ mcall = [w \in Workers |-> NoCall]
    /\ membedding = [w \in Workers |-> NoVector]
    /\ mexisting = [w \in Workers |-> NoChunk]
    /\ mfresh = NothingEnded
    /\ mstarted = 0
    /\ encodes = 0
    /\ LimIdle /\ ToolsIdle /\ TurnIdle /\ RegistryInit /\ ToolCallIdle /\ WireIdle
SearchNext ==
    /\ SearchStep
    /\ UNCHANGED <<limVars, agentVars, toolVars, requestVars, turnVars, regVars, toolCallVars, wireVars>>
SpecSearch == SearchSpecInit /\ [][SearchNext]_vars

\* One call of a built-in tool, for every tool and params dict tried.
ToolCallSpecInit ==
    /\ ToolCallInit
    /\ LimIdle /\ ToolsIdle /\ TurnIdle /\ RegistryInit /\ MemoryIdle /\ SearchIdle /\ WireIdle
ToolCallNext ==
    /\ CallTool
    /\ UNCHANGED <<limVars, agentVars, toolVars, requestVars, turnVars, regVars, memVars,
                   searchVars, wireVars>>
SpecToolCall == ToolCallSpecInit /\ [][ToolCallNext]_vars

\* One request of each client, for every short canonical history and prompt.
WireSpecInit ==
    /\ WireInit
    /\ LimIdle /\ ToolsIdle /\ TurnIdle /\ RegistryInit /\ MemoryIdle /\ SearchIdle
    /\ ToolCallIdle
WireNext ==
    /\ SendRequest
    /\ UNCHANGED <<limVars, agentVars, toolVars, requestVars, turnVars, regVars, memVars,
                   searchVars, toolCallVars>>
SpecWire == WireSpecInit /\ [][WireNext]_vars

\* ------------------------------------------------------------------------
\* Claims about the rate limiter
\* ------------------------------------------------------------------------
AcquireOps == {"acquire", "acquire_async"}

AcquireJustReturned == fresh.op \in AcquireOps

\* Timestamps admitted in the trailing 60-second interval (now - 60, now].
InTrailingWindow == {i \in DOMAIN timestamps : timestamps[i] > clock - SECONDS_PER_MINUTE}

\* C3: with rpm > 0 and one caller at a time, whenever an acquire has just
\* returned the window holds at most rpm timestamps and none of them is
\* older than 60 s, also for a waiter that wakes exactly 60 s after the
\* oldest timestamp.
C3_WindowAtMostRpmAfterAcquire ==
    (rpm > 0 /\ AcquireJustReturned) =>
        /\ Len(timestamps) <= rpm
        /\ \A i \in DOMAIN timestamps : timestamps[i] >= clock - SECONDS_PER_MINUTE

\* C4: with concurrent callers on one limiter, at most rpm acquisitions are
\* admitted in any trailing 60-second interval.
C4_AtMostRpmPerTrailingWindow ==
    rpm > 0 => Cardinality(InTrailingWindow) <= rpm

WaitOps == {"get_wait_time"} \cup AcquireOps

\* Caller c leaves the locked section of get_wait_time in this step, called
\* directly or from acquire, and the wait it computed there.
WaitComputedBy(c) ==
    /\ lpc[c] = "locked_read"
    /\ lpc'[c] # "locked_read"
    /\ lop[c] \in WaitOps
ComputedWait(c) == IF lop[c] = "get_wait_time" THEN fresh'.value ELSE lwait'[c]

IsSuffixOf(s, t) == \E k \in 0..Len(t) : s = SubSeq(t, k + 1, Len(t))

\* The parts of C28 other than the positive wait on a full window.
WaitBounds ==
    /\ fresh'.op \in WaitOps =>
          /\ fresh'.value \in 0..SECONDS_PER_MINUTE
          /\ rpm = 0 => fresh'.value = 0
    /\ fresh'.op = "get_wait_time" => IsSuffixOf(timestamps', timestamps)
    /\ (fresh'.op \in AcquireOps /\ started <= rpm) => fresh'.value = 0
    /\ \A c \in Callers :
          (WaitComputedBy(c) /\ Len(timestamps') < rpm) => ComputedWait(c) = 0

\* A full purged window makes the caller wait.
FullWindowWaits ==
    \A c \in Callers :
        (WaitComputedBy(c) /\ rpm > 0 /\ Len(timestamps') >= rpm) =>
            ComputedWait(c) \in 1..SECONDS_PER_MINUTE

\* C28: get_wait_time and acquire return a wait between 0 and 60 s: 0 when
\* rpm = 0 or the purged window holds fewer than rpm timestamps, positive
\* when it holds rpm of them; get_wait_time appends nothing, and the first
\* rpm acquires of a fresh limiter return 0.
C28_WaitTimeWithinBounds == [][WaitBounds /\ FullWindowWaits]_vars

C28_WaitBoundsOnly == [][WaitBounds]_vars

\* ------------------------------------------------------------------------
\* Claims about tool resolution
\* ------------------------------------------------------------------------
\* profile(A): the names of A the profile grants.
ProfileOf(profile, avail) ==
    CASE profile = "minimal" -> {}
      [] profile = "coding" ->
            {t \in Range(avail) : \E p \in coding_prefixes : StartsWith(t, p)}
      [] profile = "messaging" ->
            {t \in Range(avail) : \E p \in messaging_prefixes : StartsWith(t, p)}
      [] profile = "full" -> Range(avail)

\* ((profile(A) \cup tools_allow) \ tools_deny) \cap A
EffectiveToolSet(profile, allow, deny, avail) ==
    ((ProfileOf(profile, avail) \cup allow) \ deny) \cap Range(avail)

\* C10: get_allowed_tools(A) is ((profile(A) + tools_allow) - tools_deny)
\* restricted to A, listed in A's order: a subset of A, free of tools_deny,
\* and holding every allowed name of A that is not denied.
C10_GetAllowedToolsIsEffectiveSet ==
    resolved =>
        /\ Range(allowed_result) =
              EffectiveToolSet(tool_profile, tools_allow, tools_deny, available_tools)
        /\ allowed_result = FilterIn(available_tools, Range(allowed_result))
        /\ Range(allowed_result) \subseteq Range(available_tools)
        /\ Range(allowed_result) \cap tools_deny = {}
        /\ (tools_allow \cap Range(available_tools)) \ tools_deny
              \subseteq Range(allowed_result)

\* C10 witness: a coding-profile agent with a name both allowed and denied,
\* an allowed name outside the profile, and a non-empty answer.
C10_Witness ==
    /\ resolved
    /\ tool_profile = "coding"
    /\ tools_allow \cap tools_deny \cap Range(available_tools) # {}
    /\ calculator \in tools_allow
    /\ calculator \in Range(allowed_result)
    /\ Len(allowed_result) >= 2

\* ------------------------------------------------------------------------
\* Claims about the turn
\* ------------------------------------------------------------------------
RunReturned == tpc \in {"run_returned", "done"}

\* The tool calls the provider's answers asked for, over calls 1..n.
RECURSIVE ToolCallsAsked(_)
ToolCallsAsked(n) ==
    IF n = 0 THEN 0 ELSE ToolCallsAsked(n - 1) + Len(calls[n].response.tool_calls)

\* C1: whatever the provider answers, a turn makes at most
\* max_tool_iterations + 1 provider generate calls, and has returned from
\* run once it has made that many.
C1_AtMostNPlusOneProviderCalls ==
    /\ Len(calls) <= max_tool_iterations + 1
    /\ Len(calls) = max_tool_iterations + 1 => RunReturned

\* A run with max_tool_iterations = 2 whose provider asked for tools on every
\* call: three provider calls, then the return.
C1_Witness ==
    /\ tpc = "done"
    /\ entry = "run"
    /\ max_tool_iterations = MaxIterations
    /\ Len(calls) = MaxIterations + 1
    /\ \A i \in DOMAIN calls : HasToolCalls(calls[i].response)

\* The tool messages of a conversation.
ToolMessagesOf(h) == {i \in DOMAIN h : h[i].role = "tool"}

\* C2: when a tool call of the loop fails (unknown tool, invalid parameters,
\* an error result or an exception of the tool body), the tool message
\* appended for it carries the error text, the turn goes on, and a later
\* provider call is sent that message.
C2_FailedToolCallReportsError ==
    \A m \in DOMAIN execs :
        execs[m].result.status = "error" =>
            /\ conversation[execs[m].at].role = "tool"
            /\ conversation[execs[m].at].content.text = execs[m].result.error.text
            /\ RunReturned => \E i \in DOMAIN calls : calls[i].seen >= execs[m].at

\* C5: when tools are offered and every provider answer asks for tools, a
\* turn with max_tool_iterations = N makes N provider calls with the tool
\* definitions, executes the tools each of them asked for, makes one more
\* call without tool definitions, and returns that call's response as it is,
\* executing none of its tool calls.
C5_BudgetExhaustedThenOneToollessCall ==
    (RunReturned /\ tools # <<>> /\ \A i \in DOMAIN calls : HasToolCalls(calls[i].response)) =>
        LET N == max_tool_iterations
        IN /\ Len(calls) = N + 1
           /\ iteration = N
           /\ \A i \in 1..N : calls[i].tools = DefinedNames(tools) /\ calls[i].tools # <<>>
           /\ calls[N + 1].tools = <<>>
           /\ response = calls[N + 1].response
           /\ Len(execs) = ToolCallsAsked(N)
           /\ Len(conversation) = Len(InputMessages) + N + ToolCallsAsked(N)
           /\ calls[N + 1].seen = Len(conversation)

\* Two tool cycles, then a toolless call whose answer asks for two more
\* tools, which stay unexecuted.
C5_Witness ==
    /\ tpc = "done"
    /\ entry = "run"
    /\ max_tool_iterations = MaxIterations
    /\ tools # <<>>
    /\ \A i \in DOMAIN calls : HasToolCalls(calls[i].response)
    /\ Len(response.tool_calls) = 2
    /\ Len(execs) = ToolCallsAsked(MaxIterations)
    /\ Len(execs) > MaxIterations

\* In h, every assistant message with k tool calls is followed by exactly k
\* tool messages that answer its calls in order.
ToolMessagesFollow(h) ==
    \A i \in DOMAIN h :
        (h[i].role = "assistant" /\ h[i].tool_calls # <<>>) =>
            LET k == Len(h[i].tool_calls)
            IN /\ i + k <= Len(h)
               /\ \A j \in 1..k :
                     /\ h[i + j].role = "tool"
                     /\ h[i + j].tool_call_id = h[i].tool_calls[j].id
                     /\ h[i + j].name = h[i].tool_calls[j].name
               /\ i + k + 1 <= Len(h) => h[i + k + 1].role # "tool"

\* The registry executions are the tool messages of the conversation, one
\* after the other in the conversation's order.
ExecutedInOrder ==
    /\ Cardinality(ToolMessagesOf(conversation)) = Len(execs)
    /\ \A m \in DOMAIN execs :
          /\ execs[m].at \in ToolMessagesOf(conversation)
          /\ conversation[execs[m].at].tool_call_id = execs[m].id
          /\ conversation[execs[m].at].name = execs[m].name
          /\ m > 1 => execs[m - 1].at < execs[m].at
    /\ tpc = "tools" =>
          /\ Len(conversation) = calls[Len(calls)].seen + pending
          /\ conversation[Len(conversation) - pending + 1].tool_calls = response.tool_calls

\* C6: in the history run returns, every assistant message with k tool calls
\* is followed at once by exactly k tool messages, the i-th with the id and
\* name of the i-th call; the tools are executed one at a time in that order.
C6_ToolMessagesAnswerCallsInOrder ==
    /\ ExecutedInOrder
    /\ (tpc = "run_returned" \/ (tpc = "done" /\ entry # "chat")) => ToolMessagesFollow(history)

\* Run returned a history with two answers of two tool calls each, numbered
\* by the client (Gemini, Ollama), and their four tool messages.
C6_Witness ==
    /\ tpc = "run_returned"
    /\ provider = "gemini"
    /\ Len(execs) = 4
    /\ Len(history) = Len(InputMessages) + 6
    /\ history[2].tool_calls # <<>>
    /\ history[3].tool_call_id = "call_0"
    /\ history[4].tool_call_id = "call_1"
    /\ history[5].role = "assistant"

\* C7: a provider call answered with stop_reason = error is the turn's last
\* one: run returns that response, executes no tool after it and appends
\* nothing to the conversation for it.
C7_ErrorResponseReturnedAtOnce ==
    \A i \in DOMAIN calls :
        calls[i].response.stop_reason = "error" =>
            /\ i = Len(calls)
            /\ RunReturned
            /\ response = calls[i].response
            /\ Len(conversation) = calls[i].seen
            /\ \A m \in DOMAIN execs : execs[m].at <= calls[i].seen

\* The second call of a tool loop failed, after the tools of the first were
\* executed.
C7_Witness ==
    /\ tpc = "done"
    /\ Len(calls) = 2
    /\ calls[2].tools # <<>>
    /\ calls[2].response.stop_reason = "error"
    /\ response.stop_reason = "error"
    /\ execs # <<>>
    /\ max_tool_iterations > 2

\* The effective tool set of the agent over the registered tools.
TurnEffectiveSet == EffectiveToolSet(tool_profile, tools_allow, tools_deny, BuiltinTools)

\* C8: tool definitions are sent to the provider only if enable_tools is
\* true, and every one sent names a tool of the agent's effective set (so
\* no denied tool is sent), whichever entry point starts the turn and
\* whether or not tool_names is passed.
C8_OnlyEffectiveToolsOffered ==
    \A i \in DOMAIN calls :
        calls[i].tools # <<>> =>
            /\ enable_tools
            /\ Range(calls[i].tools) \subseteq TurnEffectiveSet
            /\ Range(calls[i].tools) \cap tools_deny = {}

\* The tools the turn may use: the effective set, narrowed by tool_names
\* when the caller passes them.
TurnUsableSet ==
    IF tool_names # <<>> THEN TurnEffectiveSet \cap Range(tool_names) ELSE TurnEffectiveSet

\* C9: when the provider asks for a registered tool outside the turn's
\* effective tool set, the tool body is not run and the call's result is an
\* error.
C9_ToolOutsideEffectiveSetNotExecuted ==
    \A m \in DOMAIN execs :
        (execs[m].name \in Range(BuiltinTools) /\ execs[m].name \notin TurnUsableSet) =>
            /\ ~execs[m].ran
            /\ execs[m].result.status = "error"

\* ------------------------------------------------------------------------
\* Claims about the provider adapters
\* ------------------------------------------------------------------------
\* C11: for each adapter and every wire response, the decoded response has
\* stop_reason = tool_use exactly when its tool_calls list is non-empty,
\* whatever finish flag the wire response carries.
C11_ToolUseIffToolCalls ==
    \A i \in DOMAIN calls :
        (calls[i].response.stop_reason = "tool_use") <=> HasToolCalls(calls[i].response)

\* C12: for every adapter and every temperature in [0, 2], generate returns
\* a response and never raises: a failed exchange is a response with
\* stop_reason = error whose content begins with "Error: ".
C12_GenerateNeverRaises ==
    /\ tpc # "raised"
    /\ \A i \in DOMAIN calls :
          calls[i].response.stop_reason = "error" => calls[i].response.content.text = "Error"

\* ------------------------------------------------------------------------
\* Claims about the tool registry
\* ------------------------------------------------------------------------
\* What the registry owes for one execution e of the log.
ExecutionAsOwed(e) ==
    /\ e.result.status \in {"success", "error"}
    /\ IF e.name \notin Range(BuiltinTools)
       THEN e.result.status = "error" /\ ~e.ran
       ELSE IF ValidateParams(e.name, e.arguments) # NoText
       THEN /\ e.result.status = "error"
            /\ e.result.error = ValidateParams(e.name, e.arguments)
            /\ ~e.ran
       ELSE IF ~Binds(e.name, e.arguments) \/ ToolExecute(e.name, e.arguments).raised
       THEN /\ e.result.status = "error"
            /\ e.result.error # NoText
            /\ Binds(e.name, e.arguments) =>
                  e.result.error = ToolExecute(e.name, e.arguments).exc
       ELSE e.ran /\ e.result = ToolExecute(e.name, e.arguments).result

\* C13: registry.execute always returns a ToolResult: status error for an
\* unregistered name; status error, without running the body, for
\* parameters that fail validation; status error carrying the exception's
\* text when the body raises; else the tool's own result, unchanged.
C13_RegistryExecuteAlwaysReturnsResult ==
    \A m \in DOMAIN execs : ExecutionAsOwed(execs[m])

\* One turn executed an unknown tool, a call with an invalid parameter, a
\* body that raised and a body that returned its result.
C13_Witness ==
    /\ \E m \in DOMAIN execs : execs[m].name = send /\ execs[m].result.status = "error"
    /\ \E m \in DOMAIN execs :
          /\ execs[m].ran
          /\ execs[m].result.error.text = "Numerical result out of range"
    /\ \E m \in DOMAIN execs :
          /\ ~execs[m].ran
          /\ execs[m].result.error = Txt("must be a string", "expression")
    /\ \E m \in DOMAIN execs :
          execs[m].ran /\ execs[m].result = ToolResultSuccess(Txt("42", ""))

\* ------------------------------------------------------------------------
\* Claims about rate-limited turns
\* ------------------------------------------------------------------------
\* C14: with rpm = r > 0 and one turn at a time, the (k + r)-th turn passes
\* the limiter no earlier than 60 s after the k-th passed it.  A timestamp
\* that has left the window is more than 60 s older than every later one, so
\* the timestamps kept in the window decide it.
C14_RthNextPassIsSixtySecondsLater ==
    rpm > 0 =>
        \A i, j \in DOMAIN timestamps :
            j >= i + rpm => timestamps[j] >= timestamps[i] + SECONDS_PER_MINUTE

\* ------------------------------------------------------------------------
\* Claims about the limiter registry
\* ------------------------------------------------------------------------
\* A step in which get_or_create handed out a limiter.
HandedOut == returned'.serial # returned.serial

\* What get_or_create owes, seen from the registry before and after the
\* call: the stored limiter itself, window kept, if one was stored with the
\* rpm asked for; else a new, empty limiter with that rpm, now stored.
HandedOutAsOwed ==
    LET a == returned'.agent
        r == lastRpm'[a]
        given == returned'.limiter
    IN IF limiters[a].present /\ limiters[a].rpm = r
       THEN given = limiters[a] /\ limiters' = limiters
       ELSE /\ given.present /\ given.rpm = r /\ given.window = <<>>
            /\ \A b \in AgentIds : limiters[b].present => given.inst # limiters[b].inst
            /\ given.inst # returned.limiter.inst
            /\ limiters' = [limiters EXCEPT ![a] = given]

\* The stored limiter has the rpm last asked for; nothing is stored for an
\* agent after remove or clear; the limiter handed out after remove or clear
\* is empty.
RegistryKeepsLastRpm ==
    \A a \in AgentIds :
        /\ limiters[a].present => limiters[a].rpm = lastRpm[a]
        /\ dropped[a] => ~limiters[a].present

\* C15: after any sequence of get_or_create, remove and clear,
\* get_or_create(a, r) returns the stored limiter itself, window kept, when
\* one is stored for a with rpm r, and otherwise installs and returns a new
\* empty limiter with rpm r; the stored limiter has the rpm last asked for,
\* and after remove(a) or clear() the next get_or_create(a, r) returns a
\* limiter whose count is 0.
C15_RegistryGetOrCreate ==
    /\ []RegistryKeepsLastRpm
    /\ [][HandedOut => HandedOutAsOwed]_vars
    /\ [][(HandedOut /\ dropped[returned'.agent]) => returned'.limiter.window = <<>>]_vars

\* Agent 1's limiter was replaced at least once, used, and then handed out
\* again as the same object with its window kept, while agent 2's was
\* dropped.
C15_Witness ==
    /\ returned.agent = 1
    /\ returned.limiter.inst > 1
    /\ returned.limiter.window # <<>>
    /\ returned.limiter = limiters[1]
    /\ dropped[2]

\* ------------------------------------------------------------------------
\* Claims about concurrent acquirers
\* ------------------------------------------------------------------------
\* Caller c leaves the locked section of acquire: its timestamp is appended.
AppendsTimestamp(c) == lpc[c] = "locked_append" /\ lpc'[c] = "idle"

\* C16: among concurrent acquirers of one limiter, the caller that was told
\* to wait first is the first of the waiters to append its timestamp.
C16_WaitersAppendInFifoOrder ==
    [][\A c \in Callers : (AppendsTimestamp(c) /\ lwait[c] > 0) => Head(waiters) = c]_vars

\* C17: when a rate-limited turn is cancelled after it began acquiring its
\* slot, also while it is suspended in the limiter's sleep, its timestamp is
\* in the window afterwards: the aborted request counts against the limit.
C17_CancelledTurnKeepsItsTimestamp ==
    [][fresh'.op = "cancelled" => Len(timestamps') = Len(timestamps) + 1]_vars
\* ------------------------------------------------------------------------
\* Claims about the memory index and the embedding cache
\* ------------------------------------------------------------------------
SameSource(a, b) ==
    a.agent_id = b.agent_id /\ a.source = b.source /\ a.source_id = b.source_id

\* C18: after any sequence or interleaving of index_message and
\* index_summary calls, two concurrent calls for the same source included,
\* the chunk store holds at most one chunk per (agent_id, source, source_id).
C18_AtMostOneChunkPerSource ==
    \A i, j \in DOMAIN chunks : SameSource(chunks[i], chunks[j]) => i = j

IndexOps == {"index_message", "index_summary"}

\* An indexing call ends in this step.
IndexCallEnds == mfresh'.worker # None /\ mfresh'.call.op \in IndexOps

\* The row an upsert of the ended call owes: the rows stored before the
\* step under the call's source, the first of them if any.
StoredBefore ==
    ChunksFor(IndexedAgent, SourceOf(mfresh'.call.op), mfresh'.call.source_id)

UpsertAsOwed ==
    LET text == mfresh'.call.text
        hash == Sha256(text)
        vec == Encode(mfresh'.call.model, text)
    IN /\ mfresh'.status = "returned"
       /\ IF ~embedder
          THEN /\ mfresh'.chunk = NoChunk
               /\ chunks' = chunks
               /\ cache' = cache
          ELSE IF StoredBefore = <<>>
          THEN /\ chunks' = Append(chunks, mfresh'.chunk)
               /\ mfresh'.chunk.text = text
               /\ mfresh'.chunk.embedding = vec
               /\ mfresh'.chunk.content_hash = hash
               /\ mfresh'.chunk.source = SourceOf(mfresh'.call.op)
               /\ mfresh'.chunk.source_id = mfresh'.call.source_id
          ELSE LET row == Head(StoredBefore)
               IN IF row.content_hash = hash
                  THEN /\ chunks' = chunks
                       /\ mfresh'.chunk = row
                  ELSE /\ mfresh'.chunk = [row EXCEPT !.text = text,
                                                      !.embedding = vec,
                                                      !.content_hash = hash]
                       /\ chunks' = [chunks EXCEPT ![row.id] = mfresh'.chunk]

\* C19: with one caller at a time index_message / index_summary is an
\* upsert: a stored chunk of the source with a different content_hash has
\* its text, vector and hash replaced in the same row; with an equal hash
\* the stored row is returned and the store is unchanged; without a row one
\* is created; with the encoder unavailable nothing is written and None is
\* returned.
C19_IndexIsUpsert == [][IndexCallEnds => UpsertAsOwed]_vars

\* A call has replaced alpha by beta in row 1, the only row.
C19_Witness ==
    /\ mfresh.call.op \in IndexOps
    /\ mfresh.status = "returned"
    /\ mfresh.existing.text = "alpha"
    /\ mfresh.chunk.text = "beta"
    /\ mfresh.chunk.id = mfresh.existing.id
    /\ chunks = <<mfresh.chunk>>

\* The cache holds exactly one entry under the key of text.
CachedOnce(model, text) == Len(CachedFor(model, Sha256(text))) = 1

\* C20: for any interleaving of get_embedding calls, two concurrent calls
\* for the same text that both miss the cache included, every call returns
\* the vector of its text, none raises, and the cache holds exactly one
\* entry for each (embedding_model, SHA-256(text)) key asked for.
C20_ConcurrentGetEmbeddingReturnsVector ==
    /\ (embedder /\ mfresh.call.op = "get_embedding") =>
          /\ mfresh.status = "returned"
          /\ mfresh.vector = Encode(mfresh.call.model, mfresh.call.text)
          /\ CachedOnce(mfresh.call.model, mfresh.call.text)
    /\ \A i, j \in DOMAIN cache :
          (/\ cache[i].embedding_model = cache[j].embedding_model
           /\ cache[i].content_hash = cache[j].content_hash) => i = j

\* A get_embedding call of a service with an encoder ends in this step.
GetEmbeddingEnds ==
    mfresh'.worker # None /\ mfresh'.call.op = "get_embedding" /\ embedder

\* The cache holds an entry under (model, SHA-256(text)).
KeyCached(model, text) ==
    \E i \in DOMAIN cache :
        cache[i].embedding_model = model /\ cache[i].content_hash = Sha256(text)

GetEmbeddingAsOwed ==
    LET model == mfresh'.call.model
        text == mfresh'.call.text
        vec == Encode(model, text)
    IN /\ mfresh'.status = "returned"
       /\ mfresh'.vector = vec
       /\ IF KeyCached(model, text)
          THEN /\ encodes' = encodes
               /\ cache' = cache
          ELSE /\ encodes' = encodes + 1
               /\ cache' = Append(cache, [embedding_model |-> model,
                                          content_hash |-> Sha256(text), embedding |-> vec])

\* C21: with one caller at a time get_embedding(text) returns the vector of
\* the text under the service's embedding_model whether or not the key is
\* cached: on a hit the encoder is not invoked and the cache is unchanged,
\* on a miss the encoder is invoked once and the vector is stored under the
\* key; a vector cached for another embedding_model is never returned.
C21_CacheHitEqualsFreshEmbedding == [][GetEmbeddingEnds => GetEmbeddingAsOwed]_vars

\* Three get_embedding calls have ended, one of them on a cache hit, with
\* the same text cached under both models.
C21_Witness ==
    /\ mfresh.call.op = "get_embedding"
    /\ mfresh.status = "returned"
    /\ mstarted = 3
    /\ encodes = 2
    /\ chunks = <<>>
    /\ Len(cache) = 2
    /\ cache[1].content_hash = cache[2].content_hash
    /\ \A w \in Workers : mpc[w] = "idle"

\* ------------------------------------------------------------------------
\* Claims about memory search
\* ------------------------------------------------------------------------
SearchReturned(search_type) == spc = "done" /\ scall.search_type = search_type

\* The score of the row keyed key in a result set, 0 when it is not there.
ScoreIn(results, key) ==
    IF \E i \in DOMAIN results : ResultKey(results[i]) = key
    THEN results[CHOOSE i \in DOMAIN results : ResultKey(results[i]) = key].score
    ELSE 0

SortedByScoreDescending(results) ==
    \A i, j \in DOMAIN results : i < j => results[i].score >= results[j].score

\* C22: hybrid_search returns an empty list when the config is disabled;
\* otherwise every returned row has score vector_weight * v + text_weight * t
\* for its scores v and t in the vector and text result sets (0 when absent),
\* and the list is sorted by score descending with at most max_results rows.
C22_HybridScoreIsWeightedSum ==
    SearchReturned("hybrid") =>
        IF ~config.enabled
        THEN sresults = <<>>
        ELSE /\ Len(sresults) <= config.max_results
             /\ SortedByScoreDescending(sresults)
             /\ \A i \in DOMAIN sresults :
                   sresults[i].score =
                      (config.vector_weight * ScoreIn(svector, ResultKey(sresults[i]))
                         + config.text_weight * ScoreIn(stext, ResultKey(sresults[i])))
                      \div WEIGHT_ONE

\* A hybrid search has returned two rows, the first found by both searches.
C22_Witness ==
    /\ SearchReturned("hybrid")
    /\ config.enabled
    /\ Len(sresults) = 2
    /\ ScoreIn(svector, ResultKey(sresults[1])) > 0
    /\ ScoreIn(stext, ResultKey(sresults[1])) > 0
    /\ sresults[1].score > sresults[2].score

\* The tokens of the query of the search.
QueryTokens == Split(Lower(scall.query))

\* The score text search owes a content: query tokens in it / query tokens.
OwedTextScore(content) == TextScore(content, QueryTokens)

\* The rows text search is to choose from, as results: the messages and
\* summaries in the scope of the call that contain a query token and score
\* at least min_score.
EligibleTextResults ==
    {MemorySearchResult(messages[i].content, OwedTextScore(messages[i].content),
                        "message", messages[i].id, 0) :
        i \in {j \in DOMAIN messages :
                  /\ InTextScope(messages[j], scall.session, scall.agent_id)
                  /\ OwedTextScore(messages[j].content) > 0
                  /\ OwedTextScore(messages[j].content) >= config.min_score}}
    \cup
    {MemorySearchResult(summaries[i].summary, OwedTextScore(summaries[i].summary),
                        "summary", 0, summaries[i].id) :
        i \in {j \in DOMAIN summaries :
                  /\ InTextScope(summaries[j], scall.session, scall.agent_id)
                  /\ OwedTextScore(summaries[j].summary) > 0
                  /\ OwedTextScore(summaries[j].summary) >= config.min_score}}

\* C23: text_search returns, sorted by score descending, the max_results
\* highest-scoring rows among the in-scope messages and summaries that
\* contain a query token and score at least min_score; no such row with a
\* higher score than a returned row is left out.
C23_TextSearchReturnsTopRows ==
    SearchReturned("text") =>
        /\ SortedByScoreDescending(sresults)
        /\ Range(sresults) \subseteq EligibleTextResults
        /\ Len(sresults) =
              (IF Cardinality(EligibleTextResults) < config.max_results
               THEN Cardinality(EligibleTextResults) ELSE config.max_results)
        /\ \A left \in EligibleTextResults \ Range(sresults) :
              \A i \in DOMAIN sresults : left.score <= sresults[i].score

\* ------------------------------------------------------------------------
\* Claims about one tool call
\* ------------------------------------------------------------------------
\* The calculator's body has been called with a string expression.
CalculatorCalled ==
    /\ tc_pc = "done"
    /\ tc_tool = calculator
    /\ tc_result.ran

CalledExpression == tc_params[ValueOf(tc_params, "expression")].val.lit

\* The characters an expression may be made of.
ExpressionCharacters ==
    {"0", "1", "2", "3", "4", "5", "6", "7", "8", "9"} \cup {"+", "-", "*", "/", ".", "(", ")", " "}

HasForbiddenCharacter(expr) == \E i \in DOMAIN expr : expr[i] \notin ExpressionCharacters

DividesByZero(expr) == \E n \in {"0", "1"} : expr = <<n, "/", "0">>

\* C24: for every expression with a character outside the digits,
\* + - * / . ( ) and space the calculator returns an error result that
\* mentions invalid characters and evaluation is never started; evaluation
\* is reached only for strings made of allowed characters; a division by
\* zero yields an error result, not an exception.
C24_CalculatorRejectsForbiddenCharacters ==
    CalculatorCalled =>
        /\ HasForbiddenCharacter(CalledExpression) =>
              /\ ~tc_evaluated
              /\ ~tc_body.raised
              /\ tc_body.result.status = "error"
              /\ tc_body.result.error = Txt("Expression contains invalid characters", "")
        /\ tc_evaluated => ~HasForbiddenCharacter(CalledExpression)
        /\ DividesByZero(CalledExpression) =>
              /\ tc_evaluated
              /\ ~tc_body.raised
              /\ tc_body.result.status = "error"

\* The calculator has refused 1/a without evaluating it.
C24_Witness ==
    /\ CalculatorCalled
    /\ CalledExpression = <<"1", "/", "a">>
    /\ ~tc_evaluated
    /\ tc_result.result.status = "error"

\* The type a value must have for a declared JSON type: a number is an
\* integer or a float, and nothing else is; a boolean is a boolean.
HasJsonType(v, jsonType) ==
    CASE jsonType = "string" -> v.pytype = "str"
      [] jsonType = "number" -> v.pytype \in {"int", "float"}
      [] jsonType = "boolean" -> v.pytype = "bool"
      [] jsonType = "array" -> v.pytype = "list"
      [] jsonType = "object" -> v.pytype = "dict"

DeclaredNamesOf(tool) == {ParametersOf(tool)[i].name : i \in DOMAIN ParametersOf(tool)}
DeclarationOf(tool, k) ==
    ParametersOf(tool)[CHOOSE i \in DOMAIN ParametersOf(tool) : ParametersOf(tool)[i].name = k]

MissingRequired(tool, params) ==
    {k \in DeclaredNamesOf(tool) : DeclarationOf(tool, k).required /\ k \notin Keys(params)}

\* The supplied declared parameters whose value is not of the declared type
\* or not in the declared enum.
IllTyped(tool, params) ==
    {k \in Keys(params) \cap DeclaredNamesOf(tool) :
        LET v == params[ValueOf(params, k)].val
            d == DeclarationOf(tool, k)
        IN ~HasJsonType(v, d.type) \/ (d.enum # {} /\ v.lit \notin d.enum)}

\* C25: validate_params succeeds exactly when every required parameter is
\* present and every supplied declared parameter has a value of its declared
\* JSON type (number: integer or float only) and, where an enum is declared,
\* a value in that enum; undeclared parameters never cause failure; on
\* failure the message names an offending parameter.
C25_ValidateParamsAcceptsExactlyWellTyped ==
    tc_pc = "done" =>
        /\ tc_valid = NoText <=>
              (MissingRequired(tc_tool, tc_params) = {} /\ IllTyped(tc_tool, tc_params) = {})
        /\ tc_valid # NoText =>
              tc_valid.of \in MissingRequired(tc_tool, tc_params) \cup IllTyped(tc_tool, tc_params)

\* The params of the call without the undeclared ones.
DeclaredOnly(tool, params) == SelectSeq(params, LAMBDA it : it.key \in DeclaredNamesOf(tool))

\* The call has an undeclared parameter and is valid without it.
ValidCallWithExtra ==
    /\ tc_pc = "done"
    /\ DeclaredOnly(tc_tool, tc_params) # tc_params
    /\ MissingRequired(tc_tool, tc_params) = {}
    /\ IllTyped(tc_tool, tc_params) = {}

\* C26: adding an undeclared parameter to an otherwise valid tool call does
\* not change the outcome of registry.execute: the tool body runs and the
\* result has the status and output of the call without the parameter.
C26_ExtraParameterChangesNothing ==
    ValidCallWithExtra =>
        LET plain == RegistryExecute(BuiltinTools, tc_tool, DeclaredOnly(tc_tool, tc_params))
        IN /\ tc_result.ran
           /\ tc_result.result.status = plain.result.status
           /\ tc_result.result.output = plain.result.output


\* The agent that owns the row a result was made of.
OwnerOfResult(r) ==
    IF r.source = "summary"
    THEN AgentOfSession(summaries[r.summary_id].session)
    ELSE AgentOfSession(messages[r.message_id].session)

\* C30: every result of a search scoped to an agent, with or without a
\* session, of any search type, is made of a message, summary or chunk of
\* that agent.
C30_SearchReturnsOnlyOwnRows ==
    (spc = "done" /\ scall.agent_id # 0) =>
        \A i \in DOMAIN sresults : OwnerOfResult(sresults[i]) = scall.agent_id

\* The same when the session passed, if any, is one of the agent's own.
C30_WithOwnSession ==
    (scall.session # 0 => AgentOfSession(scall.session) = scall.agent_id) =>
        C30_SearchReturnsOnlyOwnRows

\* A finished turn of run or chat on the input [user] in which the provider
\* asked for one calculator call and then answered "42".
CalculatorThenAnswer ==
    /\ tpc = "done"
    /\ entry \in {"run", "chat"}
    /\ RunMessages = InputMessages
    /\ Len(calls) = 2
    /\ Len(calls[1].response.tool_calls) = 1
    /\ calls[1].response.tool_calls[1].name = calculator
    /\ calls[2].response.content = Txt("42", "")
    /\ calls[2].response.tool_calls = <<>>

\* user, assistant with a tool call, tool result, assistant
FourEntryHistory(h) ==
    /\ Len(h) = 4
    /\ h[1] = InputMessages[1]
    /\ h[2].role = "assistant" /\ Len(h[2].tool_calls) = 1
    /\ h[3].role = "tool"
    /\ h[4].role = "assistant" /\ h[4].tool_calls = <<>> /\ h[4].content = Txt("42", "")

\* C29: after the input [user], one calculator tool call and the plain reply
\* "42", the final content is "42" and the history handed back by run and by
\* chat is user, assistant with the tool call, tool result, assistant.
C29_HistoryHasFourEntries ==
    CalculatorThenAnswer =>
        /\ response.content = Txt("42", "")
        /\ FourEntryHistory(history)

\* The same for chat alone.
C29_ChatHistoryHasFourEntries ==
    (CalculatorThenAnswer /\ entry = "chat") =>
        /\ response.content = Txt("42", "")
        /\ FourEntryHistory(history)

\* run handed back the conversation without the final answer.
C29_RunHistoryLacksAnswer ==
    /\ CalculatorThenAnswer
    /\ entry = "run"
    /\ Len(history) = 3
    /\ history[3].role = "tool"

\* ------------------------------------------------------------------------
\* Claims about the requests the clients send
\* ------------------------------------------------------------------------
RequestSent == wq_pc = "sent"
LiftingProviders == {"anthropic", "gemini"}
SystemMessagesOf(msgs) == SelectSeq(msgs, LAMBDA m : m.role = "system")
NonSystemMessagesOf(msgs) == SelectSeq(msgs, LAMBDA m : m.role # "system")

\* The system field carries a text: it is the text, or the text is formatted
\* into it.
Carries(field, t) == field # NoText /\ (field = t \/ field.of = t.text)

\* The wire messages that stand for the canonical messages: all of them
\* after the prepended system prompt.
WireOfMessages ==
    IF wq_provider \notin LiftingProviders /\ wq_system_prompt # NoText
    THEN Tail(wq_request.messages)
    ELSE wq_request.messages
WireOfNonSystemMessages == SelectSeq(WireOfMessages, LAMBDA w : w.role # "system")

\* C27: the Anthropic and Gemini clients lift the text of every system
\* message of the canonical list into the request's system field and keep it
\* out of the wire list; the OpenAI-compatible and Ollama clients put the
\* system prompt first in the wire list; every other canonical message
\* becomes exactly one wire message, in order.
C27_SystemMessagesAreLifted ==
    RequestSent =>
        /\ wq_provider \in LiftingProviders =>
              \A i \in DOMAIN wq_messages :
                  wq_messages[i].role = "system" =>
                      /\ Carries(wq_request.system, wq_messages[i].content)
                      /\ \A j \in DOMAIN wq_request.messages :
                            /\ wq_request.messages[j].role # "system"
                            /\ wq_request.messages[j].content # wq_messages[i].content
        /\ (wq_provider \notin LiftingProviders /\ wq_system_prompt # NoText) =>
              /\ wq_request.messages # <<>>
              /\ wq_request.messages[1].role = "system"
              /\ wq_request.messages[1].content = wq_system_prompt
        /\ LET owed == NonSystemMessagesOf(wq_messages)
               sent == WireOfNonSystemMessages
           IN /\ Len(sent) = Len(owed)
              /\ \A i \in DOMAIN owed :
                    /\ sent[i].content = ContentOrNone(owed[i].content)
                          \/ sent[i].content = owed[i].content
                    /\ Len(sent[i].tool_calls) = Len(owed[i].tool_calls)

\* The parts of C27 that do not depend on system messages in the list.
C27_WithoutSystemMessages ==
    SystemMessagesOf(wq_messages) = <<>> => C27_SystemMessagesAreLifted

\* A request of a lifting client for a list with a system message.
C27_SystemMessageSent ==
    /\ RequestSent
    /\ wq_provider \in LiftingProviders
    /\ SystemMessagesOf(wq_messages) # <<>>
    /\ NonSystemMessagesOf(wq_messages) # <<>>

\* ------------------------------------------------------------------------
\* Claims about a turn and the agent's rate limiter
\* ------------------------------------------------------------------------
\* The turn is rate limited: rate_limit_enabled and rpm > 0.
TurnIsLimited == rate_limit_enabled /\ rpm > 0

\* C31: a turn touches the agent's limiter only when rate_limit_enabled and
\* rpm > 0; it then takes exactly one slot, before its first provider call,
\* and none for the further calls of the tool loop; a turn with rate
\* limiting disabled or rpm = 0 leaves the limiter's window as it was.
C31_TurnAcquiresOneSlotOnlyWhenLimited ==
    /\ TurnIsLimited =>
          /\ tpc = "start" => timestamps = <<>>
          /\ tpc # "start" => Len(timestamps) = 1
          /\ calls # <<>> => Len(timestamps) = 1
    /\ ~TurnIsLimited => timestamps = <<>>

\* The same for turns that are limited or have rate limiting disabled.
C31_ExceptEnabledWithRpmZero ==
    (rate_limit_enabled => rpm > 0) => C31_TurnAcquiresOneSlotOnlyWhenLimited

\* ------------------------------------------------------------------------
\* Claims about concurrent callers of one limiter
\* ------------------------------------------------------------------------
NonDecreasing(ts) == \A i, j \in DOMAIN ts : i < j => ts[i] <= ts[j]

\* Caller c leaves a locked section in this step: the window was purged
\* with c's reading of the clock.
PurgedBy(c) ==
    /\ lpc[c] \in {"locked_read", "locked_append"}
    /\ lpc'[c] # lpc[c]

\* After every step the window is in order, and a purge leaves nothing
\* older than 60 s before the clock reading it was made with.
OrderedAndPurged ==
    /\ NonDecreasing(timestamps')
    /\ \A c \in Callers :
          PurgedBy(c) =>
              \A i \in DOMAIN timestamps' :
                  timestamps'[i] >= lnow[c] - SECONDS_PER_MINUTE

\* C32: with several threads calling acquire on one limiter, in every
\* interleaving the timestamps stay in non-decreasing order from head to
\* tail, so that purging from the head leaves no timestamp older than 60 s.
C32_TimestampsStayOrdered == [][sched = "threads" => OrderedAndPurged]_vars

\* The same for tasks of one event loop, which are not preempted between
\* reading the clock and appending.
C32_OrderedForTasks == [][sched = "tasks" => OrderedAndPurged]_vars

\* ------------------------------------------------------------------------
\* Claims about the caller's message list
\* ------------------------------------------------------------------------
\* C33: run never modifies the list the caller passed, and chat never
\* modifies the caller's conversation_history, at any point of the turn:
\* before, between and after the provider calls and tool executions, after a
\* provider error and after an exception.
C33_CallersListIsNeverModified == caller_list = passed

\* chat returned after a tool cycle on an earlier exchange: its history grew
\* by the user message, the tool cycle and the answer.
C33_Witness ==
    /\ tpc = "done"
    /\ entry = "chat"
    /\ passed # <<>>
    /\ execs # <<>>
    /\ Len(history) >= Len(passed) + 4
    /\ caller_list = passed

\* run returned after a tool cycle, or stopped on an exception.
C33_RunWitness ==
    /\ entry = "run"
    /\ \/ tpc = "done" /\ execs # <<>> /\ Len(history) > Len(passed)
       \/ tpc = "raised"

\* ------------------------------------------------------------------------
\* Claims about termination of acquire
\* ------------------------------------------------------------------------
InAcquire(c) == lpc[c] # "idle" /\ lop[c] \in AcquireOps

\* The call of c has just returned: the caller is admitted.
Admitted(c) == fresh.caller = c /\ fresh.op \in AcquireOps

\* The caller of c's acquire_async has just cancelled it.
CancelledByCaller(c) == fresh.caller = c /\ fresh.op = "cancelled"

\* C34: saturation is never an error.  Under fair scheduling every call of
\* acquire / acquire_async returns admitted, whatever the other callers of
\* the limiter do, unless its own caller cancels it; the one sleep of a call
\* lasts at most 60 s.
C34_AcquireEventuallyReturns ==
    /\ \A c \in Callers : InAcquire(c) ~> (Admitted(c) \/ CancelledByCaller(c))
    /\ [](\A c \in Callers : lwait[c] \in 0..SECONDS_PER_MINUTE)

\* The termination part of C34 alone (checked with MaxAcquires = 2 and
\* MaxClock = 60).
C34_EventuallyReturns ==
    \A c \in Callers : InAcquire(c) ~> (Admitted(c) \/ CancelledByCaller(c))

\* The sleep of a task of one event loop lasts at most 60 s.
C34_SleepAtMostSixtyForTasks ==
    sched = "tasks" => \A c \in Callers : lwait[c] \in 0..SECONDS_PER_MINUTE

====
